---- MODULE Spec2Model ----
(***************************************************************************)
(* Djerba plugin orchestration: the configure / extract / render pipeline  *)
(* of djerba.core.main driving the demo1, supplement.body, tar.sample and   *)
(* pwgs.sample plugins over one ordered configuration and one workspace.   *)
(* Further specifications call library functions on their own: the        *)
(* consensus-cruncher metrics reader, the report composer's sort and       *)
(* cohort lookup, the simple reader, and plugin configure applied twice.   *)
(*                                                                         *)
(* Strings are TLA+ strings; a document or fragment is a sequence of       *)
(* tokens, NL being the newline.  A configuration is a sequence of         *)
(* sections [name, value], value a function from option names to string  *)
(* values.  An ordered dict is a sequence of [name, value] entries.           *)
(***************************************************************************)
EXTENDS Integers, Sequences, FiniteSets, TLC

VARIABLES
    config_in,      \* the configuration held by the file at config_path_in
    workspace,      \* names of the files present in the shared work directory
    phase,          \* "configure" | "extract" | "render": the call in progress
    pc,             \* "ready" | "loop" | "returned" | "raised"
    idx,            \* position of the for loop of the call in progress, 0 outside it
    out_path,       \* the call's output path: "none" | "writable" | "unwritable"
    config_out,     \* configure's config_out, as built so far; then the object extract is handed
    data,           \* extract's data, as built so far; then the object render is handed
    html_sections,  \* render's html_sections, as built so far
    footer,         \* render's footer, from the core renderer
    returned,       \* phase -> <<>> or <<value returned>>
    written,        \* phase -> <<>> or <<content>>, one entry per write to the output path
    err,            \* the exception that ended the call, [kind, param]
    loaded,         \* the plugin loader's cache: identifiers constructed so far
    trace,          \* history of the calls made: [phase, op, section, result]
    subject,        \* a library function called on its own, with its arguments; <<>> if none
    outcome         \* <<>> before that call, <<what the call produced>> after it

\* the variables of the orchestrator
main_vars == <<config_in, workspace, phase, pc, idx, out_path, config_out, data,
               html_sections, footer, returned, written, err, loaded, trace>>

vars == <<config_in, workspace, phase, pc, idx, out_path, config_out, data,
          html_sections, footer, returned, written, err, loaded, trace,
          subject, outcome>>

----------------------------------------------------------------------------
(* Bounds of the model *)

\* longest configuration, the core section included
MaxSections == 3
\* tar.sample sections are enumerated with at most this many of the first-pass
\* parameters supplied, or with all discovered parameters supplied
MaxGiven == 0
\* most entries of the 'plugins' map of report data handed straight to render
MaxEntries == 2

----------------------------------------------------------------------------
(* Names and literals *)

CORE == "core"
DEMO1 == "demo1"
SUPPLEMENT == "supplement.body"
TAR == "tar.sample"
PWGS == "pwgs.sample"
\* any other plugin the loader can resolve, known only through the contract
PLUGIN_X == "plugin_x"
\* an identifier the loader cannot resolve
UNKNOWN == "no_such_plugin"

PLUGINS == "plugins"
NULL == "__DJERBA_NULL__"
NL == "\n"
NONE_SPECIFIED == "NONE_SPECIFIED"
INPUT_PARAMS_FILE == "input_params.json"
ASSAY == "assay"
FAILED == "failed"

DEMO1_DEFAULT_CONFIG_PRIORITY == 100
SUPPLEMENT_DEFAULT_CONFIG_PRIORITY == 1200
TAR_PRIORITY == 200
PWGS_DEFAULT_CONFIG_PRIORITY == 100

Phases == <<"configure", "extract", "render">>

Err(kind, param) == [kind |-> kind, param |-> param]
NoErr == Err("none", "")

Ok(section) == [ok |-> TRUE, section |-> section, err |-> NoErr]
Fail(section, kind, param) == [ok |-> FALSE, section |-> section, err |-> Err(kind, param)]

\* the option names of a configuration, in order
SectionNames(config) == [i \in 1..Len(config) |-> config[i].name]

\* the keys of an ordered dict, in insertion order
Keys(entries) == [i \in 1..Len(entries) |-> entries[i].name]

Range(s) == {s[i] : i \in 1..Len(s)}

----------------------------------------------------------------------------
(* main.__init__ *)

\* the attributes main.__init__ sets on the instance
MainAttributes ==
    {"log_level", "log_path", "logger", "json_validator", "path_validator",
     "plugin_loader"}

----------------------------------------------------------------------------
(* Plugin base: parameter specification and the configuration wrapper *)

\* plugin_base.apply_defaults: a missing required parameter is an error that
\* names it; a missing discovered parameter becomes the null placeholder; a
\* missing default parameter takes its default
apply_defaults(params, required, discovered, defaults) ==
    LET missing == {r \in required : r \notin DOMAIN params}
        keys == DOMAIN params \cup discovered \cup DOMAIN defaults
    IN  IF missing # {}
        THEN Fail(params, "ParameterError", CHOOSE r \in missing : TRUE)
        ELSE Ok([k \in keys |->
                    IF k \in DOMAIN params THEN params[k]
                    ELSE IF k \in discovered THEN NULL
                    ELSE defaults[k]])

\* config_wrapper.my_param_is_null
my_param_is_null(section, p) == section[p] = NULL

\* config_wrapper.set_my_param
set_my_param(section, p, value) == [section EXCEPT ![p] = value]

\* config_wrapper.set_my_priorities: the priority is written whatever was there
set_my_priorities(section, priority) ==
    [k \in DOMAIN section \cup {"priority"} |->
        IF k = "priority" THEN ToString(priority) ELSE section[k]]

\* config_wrapper.get_my_attributes for the clinical / supplementary flags
FlagAttributes(section) ==
    {a \in {"clinical", "supplementary"} : a \in DOMAIN section /\ section[a] = "True"}

----------------------------------------------------------------------------
(* demo1 *)

Demo1Required == {"question"}

\* Demo1Defaults with the two flags the other way round
Demo1DefaultsSwapped ==
    [k \in {"clinical", "supplementary", "dummy_file"} |->
        IF k = "clinical" THEN "False"
        ELSE IF k = "supplementary" THEN "True"
        ELSE NULL]

Demo1Defaults ==
    [k \in {"clinical", "supplementary", "dummy_file"} |->
        IF k = "clinical" THEN "True"
        ELSE IF k = "supplementary" THEN "False"
        ELSE NULL]

Demo1Configure(params) ==
    LET r == apply_defaults(params, Demo1Required, {}, Demo1Defaults)
    IN  IF r.ok
        THEN Ok(set_my_priorities(r.section, DEMO1_DEFAULT_CONFIG_PRIORITY))
        ELSE r

----------------------------------------------------------------------------
(* supplement.body *)

SupplementDiscovered == {ASSAY, "user_supplied_draft_date", "report_signoff_date"}
SupplementDefaults ==
    [k \in {"clinical_geneticist_name", "clinical_geneticist_licence",
            "attributes", FAILED, "priority"} |->
        IF k = "clinical_geneticist_name" THEN "Trevor Pugh, PhD, FACMG"
        ELSE IF k = "clinical_geneticist_licence" THEN "1027812"
        ELSE IF k = "attributes" THEN "clinical"
        ELSE IF k = FAILED THEN "False"
        ELSE ToString(SUPPLEMENT_DEFAULT_CONFIG_PRIORITY)]

\* the assay names assays.name_status accepts
AssayNames == {"WGTS", "TAR"}
\* the assay recorded in input_params.json, when the file exists
InputParamsAssay == "WGTS"

\* check_assay_name
check_assay_name(section) == section[ASSAY] \in AssayNames

\* SupplementConfigure with a draft date that is already marked as not
\* specified turned back into the null placeholder
SupplementConfigureUnmarks(params, ws) ==
    LET r == apply_defaults(params, {}, SupplementDiscovered, SupplementDefaults)
        has_input == INPUT_PARAMS_FILE \in ws
        s0 == r.section
        s1 == IF my_param_is_null(s0, ASSAY) /\ has_input
              THEN set_my_param(s0, ASSAY, InputParamsAssay) ELSE s0
        s2 == IF my_param_is_null(s1, "user_supplied_draft_date")
              THEN set_my_param(s1, "user_supplied_draft_date", NONE_SPECIFIED)
              ELSE IF s1["user_supplied_draft_date"] = NONE_SPECIFIED
              THEN set_my_param(s1, "user_supplied_draft_date", NULL) ELSE s1
        s3 == IF my_param_is_null(s2, "report_signoff_date")
              THEN set_my_param(s2, "report_signoff_date", NONE_SPECIFIED) ELSE s2
    IN  IF ~r.ok THEN r
        ELSE IF my_param_is_null(s0, ASSAY) /\ ~has_input
        THEN Fail(s0, "DjerbaPluginError", ASSAY)
        ELSE IF ~check_assay_name(s3)
        THEN Fail(s3, "DjerbaPluginError", "")
        ELSE Ok(s3)

SupplementConfigure(params, ws) ==
    LET r == apply_defaults(params, {}, SupplementDiscovered, SupplementDefaults)
        has_input == INPUT_PARAMS_FILE \in ws
        s0 == r.section
        s1 == IF my_param_is_null(s0, ASSAY) /\ has_input
              THEN set_my_param(s0, ASSAY, InputParamsAssay) ELSE s0
        s2 == IF my_param_is_null(s1, "user_supplied_draft_date")
              THEN set_my_param(s1, "user_supplied_draft_date", NONE_SPECIFIED) ELSE s1
        s3 == IF my_param_is_null(s2, "report_signoff_date")
              THEN set_my_param(s2, "report_signoff_date", NONE_SPECIFIED) ELSE s2
    IN  IF ~r.ok THEN r
        ELSE IF my_param_is_null(s0, ASSAY) /\ ~has_input
        THEN Fail(s0, "DjerbaPluginError", ASSAY)
        ELSE IF ~check_assay_name(s3)
        THEN Fail(s3, "DjerbaPluginError", "")
        ELSE Ok(s3)

----------------------------------------------------------------------------
(* tar.sample *)

TarFromInputParams ==
    <<"group_id", "normal_id", "oncotree_code", "known_variants">>
TarFromProvenance ==
    <<"ichorcna_file", "consensus_cruncher_file", "consensus_cruncher_file_normal">>
TarFromConsensusCruncher == <<"collapsed_coverage_pl", "collapsed_coverage_bc">>
TarDiscovered ==
    Range(TarFromInputParams) \cup Range(TarFromProvenance) \cup {"raw_coverage"}
        \cup Range(TarFromConsensusCruncher)
TarDefaults ==
    [k \in {"attributes", "priority"} |->
        IF k = "attributes" THEN "clinical" ELSE ToString(TAR_PRIORITY)]

\* the value a lookup fills in for parameter p
Discovered(p) == "found:" \o p

\* TarFill with the looked-up value dropped instead of stored
TarFillForgets(r, p, available, kind, named) ==
    IF ~r.ok THEN r
    ELSE IF ~my_param_is_null(r.section, p) THEN r
    ELSE IF available THEN r
    ELSE Fail(r.section, kind, named)

\* TarFill with the lookup made and stored whether or not p is null
TarFillOverwrites(r, p, available, kind, named) ==
    IF ~r.ok THEN r
    ELSE IF available THEN Ok(set_my_param(r.section, p, Discovered(p)))
    ELSE Fail(r.section, kind, named)

\* one `if wrapper.my_param_is_null(p): wrapper.set_my_param(p, <lookup>)`
\* statement: skipped once an earlier statement has raised; the lookup either
\* yields a value or raises an error of the given kind naming `named`
TarFill(r, p, available, kind, named) ==
    IF ~r.ok THEN r
    ELSE IF ~my_param_is_null(r.section, p) THEN r
    ELSE IF available THEN Ok(set_my_param(r.section, p, Discovered(p)))
    ELSE Fail(r.section, kind, named)

RECURSIVE TarFillAll(_, _, _, _, _)
TarFillAll(r, ps, available, kind, named) ==
    IF ps = <<>> THEN r
    ELSE TarFillAll(TarFill(r, Head(ps), available, kind, named),
                    Tail(ps), available, kind, named)

\* env.provenance, env.qcetl, env.metrics: whether the file-provenance lookup,
\* the QC-ETL cache lookup and the reading of the consensus-cruncher file succeed
TarConfigure(params, ws, env) ==
    LET r0 == apply_defaults(params, {}, TarDiscovered, TarDefaults)
        \* input_data is bound only when input_params.json exists
        r1 == TarFillAll(r0, TarFromInputParams, INPUT_PARAMS_FILE \in ws,
                         "UnboundLocalError", "input_data")
        r2 == TarFillAll(r1, TarFromProvenance, env.provenance, "RuntimeError", "")
        r3 == TarFill(r2, "raw_coverage", env.qcetl, "MissingQCETLError", "")
        r4 == TarFillAll(r3, TarFromConsensusCruncher, env.metrics, "OSError", "")
    IN  r4

----------------------------------------------------------------------------
(* pwgs.sample *)

\* option names of djerba.plugins.pwgs.constants
SNV_COUNT_FILE == "snv_count_file"
BAMQC == "bamqc"

PwgsDefaults ==
    [k \in {"clinical", "supplementary"} |->
        IF k = "clinical" THEN "True" ELSE "False"]

\* env.provenance: whether the file-provenance lookup succeeds; its OSError is
\* caught and the section is then left as the ini gave it
PwgsConfigure(params, env) ==
    LET r == apply_defaults(params, {}, {}, PwgsDefaults)
        s0 == set_my_priorities(r.section, PWGS_DEFAULT_CONFIG_PRIORITY)
        s1 == IF env.provenance
              THEN [k \in DOMAIN s0 \cup {SNV_COUNT_FILE} |->
                        IF k = SNV_COUNT_FILE THEN Discovered(SNV_COUNT_FILE) ELSE s0[k]]
              ELSE s0
    IN  IF r.ok THEN Ok(s1) ELSE r

----------------------------------------------------------------------------
(* Plugin data and the validator *)

\* the top-level keys the schema requires of a plugin data object
RequiredKeys == {"plugin_name", "priorities", "attributes", "merge_inputs", "results"}

\* json_validator.validate_data: TRUE when the data conforms
validate_data(pd) == RequiredKeys \subseteq DOMAIN pd

ExtractOk(pd, writes) == [ok |-> TRUE, pd |-> pd, writes |-> writes, err |-> NoErr]
ExtractFail(kind, param) ==
    [ok |-> FALSE, pd |-> [k \in {} |-> ""], writes |-> {}, err |-> Err(kind, param)]

\* plugin_base.get_starting_plugin_data
get_starting_plugin_data(identifier, section, version) ==
    [plugin_name |-> identifier \o " plugin",
     priorities |-> section["priority"],
     attributes |-> {section["attributes"]},
     merge_inputs |-> <<>>,
     results |-> {},
     version |-> version]

Demo1Extract(section) ==
    [plugin_name |-> DEMO1 \o " plugin",
     priorities |-> section["priority"],
     attributes |-> FlagAttributes(section),
     merge_inputs |-> << [element |-> "gene_information_merger",
                          records |-> <<"KRAS", "PIK3CA">>] >>,
     results |-> {}]

\* Demo1Writes with demo1 writing under a name tar.sample uses
Demo1WritesPurity == {"purity.txt"}

\* the files demo1's extract leaves in the workspace
Demo1Writes == {"question.txt"}

\* the date strftime returns
Today == "today"

SupplementExtract(section, core) ==
    LET draft_date ==
            IF section["user_supplied_draft_date"] = NONE_SPECIFIED
            THEN Today ELSE section["user_supplied_draft_date"]
        report_signoff_date ==
            IF section["report_signoff_date"] = NONE_SPECIFIED
            THEN Today ELSE section["report_signoff_date"]
    IN  [plugin_name |-> SUPPLEMENT \o " plugin",
         priorities |-> section["priority"],
         attributes |-> {section["attributes"]},
         merge_inputs |-> <<>>,
         results |-> {<<"assay", section[ASSAY]>>,
                      <<"failed", section[FAILED]>>,
                      <<"author", core["author"]>>,
                      <<"extract_time", draft_date>>,
                      <<"report_signoff_date", report_signoff_date>>,
                      <<"clinical_geneticist_name", section["clinical_geneticist_name"]>>,
                      <<"clinical_geneticist_licence", section["clinical_geneticist_licence"]>>},
         version |-> "0.1"]

TarExtract(section) ==
    [get_starting_plugin_data(TAR, section, "1.0.0") EXCEPT
        !.results = {<<"oncotree_code", section["oncotree_code"]>>,
                     <<"known_variants", section["known_variants"]>>,
                     <<"cancer_content", "purity">>,
                     <<"raw_coverage", section["raw_coverage"]>>,
                     <<"unique_coverage", section["collapsed_coverage_pl"]>>,
                     <<"consensus_cruncher_file", section["consensus_cruncher_file"]>>,
                     <<"ichorcna_file", section["ichorcna_file"]>>}]

\* the files tar.sample's extract leaves in the workspace
TarWrites == {"ichor_metrics.json", "purity.txt"}

\* the file pwgs.sample's preprocess_bamqc leaves in the workspace
PwgsWrites == {"insert_size_distribution.csv"}

\* the figures the QC-ETL cache holds for a tumour id
QcEtl(tumour_id, column) == column \o ":" \o tumour_id

\* pwgs.sample extract: reads the core section's tumour_id, then its own
\* section; env.qcetl and env.metrics say whether the cache lookup and the
\* reading of the input files succeed
PwgsExtract(section, core, env) ==
    IF "tumour_id" \notin DOMAIN core THEN ExtractFail("KeyError", "tumour_id")
    ELSE IF ~env.qcetl THEN ExtractFail("MissingQCETLError", "")
    ELSE IF SNV_COUNT_FILE \notin DOMAIN section THEN ExtractFail("KeyError", SNV_COUNT_FILE)
    ELSE IF ~env.metrics THEN ExtractFail("OSError", "")
    ELSE IF BAMQC \notin DOMAIN section THEN ExtractFail("KeyError", BAMQC)
    ELSE ExtractOk(
            [plugin_name |-> PWGS \o " plugin",
             priorities |-> section["priority"],
             attributes |-> FlagAttributes(section),
             merge_inputs |-> <<>>,
             results |-> {<<"median_insert_size", QcEtl(core["tumour_id"], "insertSize")>>,
                          <<"coverage", QcEtl(core["tumour_id"], "coverage")>>,
                          <<"primary_snv_count", section[SNV_COUNT_FILE]>>}],
            PwgsWrites)

\* what the extract of a plugin known only through the contract may return:
\* conforming data, or data with `results` removed
PluginXData ==
    {[plugin_name |-> PLUGIN_X \o " plugin", priorities |-> "150",
      attributes |-> {"clinical"}, merge_inputs |-> <<>>, results |-> {}],
     [plugin_name |-> PLUGIN_X \o " plugin", priorities |-> "150",
      attributes |-> {"clinical"}, merge_inputs |-> <<>>]}

----------------------------------------------------------------------------
(* Fragments *)

\* demo1.render: the schema check of plugin_base.render, then a fixed fragment
Demo1Render(pd) ==
    IF validate_data(pd)
    THEN [ok |-> TRUE, html |-> <<"<h3>TODO demo1 plugin output goes here</h3>">>]
    ELSE [ok |-> FALSE, html |-> <<>>]

\* supplement.body and tar.sample render: the Mako template applied to the data
MakoRender(template, pd) ==
    [ok |-> TRUE, html |-> <<template, NL, pd.plugin_name>>]

\* pwgs.sample render: mako_template.render(**data), nothing else
PwgsRender(pd) == MakoRender("pwgs_sample_template.html", pd)

\* the fragments a plugin known only through the contract may return
PluginXFragments == {<<>>, <<"x", NL, "y">>}

\* core renderer: header and footer from the core fields only
CoreRender(d) == [header |-> <<"<html>", d.core["author"]>>, footer |-> <<"</html>">>]

\* "\n".join(html_sections)
RECURSIVE Join(_)
Join(sections) ==
    IF sections = <<>> THEN <<>>
    ELSE IF Len(sections) = 1 THEN sections[1]
    ELSE sections[1] \o <<NL>> \o Join(Tail(sections))

----------------------------------------------------------------------------
(* Plugin loader *)

\* the identifiers the loader resolves to a plugin implementation
KnownPlugins == {DEMO1, SUPPLEMENT, TAR, PWGS, PLUGIN_X}

\* plugin_loader.load: the identifier must name a plugin implementation
CanLoad(identifier) == identifier \in KnownPlugins

----------------------------------------------------------------------------
(* The configurations a run may be given *)

EmptyParams == [k \in {} |-> ""]

CoreAuthors == {"A"}

Given(p) == "given:" \o p

\* the ini supplies the first n parameters of the first pass, or all ten
TarGiven ==
    {{TarFromInputParams[i] : i \in 1..n} :
        n \in 0..(IF MaxGiven < Len(TarFromInputParams)
                  THEN MaxGiven ELSE Len(TarFromInputParams))}
        \cup {TarDiscovered}

SectionInputs(name) ==
    IF name = CORE THEN {[author |-> a, tumour_id |-> "T1"] : a \in CoreAuthors}
    ELSE IF name = DEMO1
    THEN {EmptyParams, [question |-> "What is six times nine?"]}
    ELSE IF name = SUPPLEMENT
    THEN {EmptyParams, [assay |-> "BOGUS"],
          [assay |-> "WGTS", report_signoff_date |-> "2023-01-01"]}
    ELSE IF name = TAR
    THEN {[p \in S |-> Given(p)] : S \in TarGiven}
    ELSE IF name = PWGS
    THEN {EmptyParams, [p \in {SNV_COUNT_FILE, BAMQC} |-> Given(p)]}
    ELSE {EmptyParams}

SectionNamesAllowed == {CORE, DEMO1, SUPPLEMENT, TAR, PWGS, PLUGIN_X, UNKNOWN}

\* a configuration source holds each section name at most once, and the core
\* section is one of them
NameLists ==
    {ns \in UNION {[1..n -> SectionNamesAllowed] : n \in 1..MaxSections} :
        /\ \A i, j \in 1..Len(ns) : i # j => ns[i] # ns[j]
        /\ \E i \in 1..Len(ns) : ns[i] = CORE}

RECURSIVE ConfigsOver(_)
ConfigsOver(ns) ==
    IF ns = <<>> THEN {<<>>}
    ELSE {<<[name |-> Head(ns), value |-> ps]>> \o rest :
            ps \in SectionInputs(Head(ns)), rest \in ConfigsOver(Tail(ns))}

Configs == UNION {ConfigsOver(ns) : ns \in NameLists}

OutPaths == {"none", "writable", "unwritable"}

\* what the environment decides for one handler call: whether the provenance
\* lookup, the QC-ETL lookup and the reading of metrics files succeed, and
\* whether a handler that is not part of the sources (core handlers, plugin_x)
\* succeeds
Envs == [provenance : BOOLEAN, qcetl : BOOLEAN, metrics : BOOLEAN, handler_ok : BOOLEAN]

\* the decisions that matter to the handler of section `name`: the lookups to
\* tar.sample alone, handler_ok to the handlers that are not part of the sources
EnvsFor(name) ==
    {e \in Envs :
        /\ name \notin {TAR, PWGS} => e.provenance /\ e.qcetl /\ e.metrics
        /\ name \notin {CORE, PLUGIN_X} => e.handler_ok}

----------------------------------------------------------------------------
(* The orchestrator: djerba.core.main *)

Evt(ph, op, section, result) ==
    [phase |-> ph, op |-> op, section |-> section, result |-> result]

\* the output-path check at the head of each phase, made through the
\* attribute `attr` of the main object
OutputCheck(attr, path) ==
    IF path = "none" THEN NoErr
    ELSE IF attr \notin MainAttributes THEN Err("AttributeError", attr)
    ELSE IF path = "unwritable" THEN Err("OutputPathError", "")
    ELSE NoErr

\* the attribute each phase uses for the check
ConfigureValidator == "validator"
ExtractValidator == "validator"
RenderValidator == "path_validator"

\* IsCoreSection with no section recognised as the core section
NeverCoreSection(name) == FALSE

\* `section_name == ini.CORE`
IsCoreSection(name) == name = CORE

\* SetItem with a new key put in front of the earlier ones
SetItemInFront(entries, name, value) ==
    IF \E i \in 1..Len(entries) : entries[i].name = name
    THEN [i \in 1..Len(entries) |->
            IF entries[i].name = name THEN [name |-> name, value |-> value] ELSE entries[i]]
    ELSE <<[name |-> name, value |-> value]>> \o entries

\* d[name] = value on an insertion-ordered dict
SetItem(entries, name, value) ==
    IF \E i \in 1..Len(entries) : entries[i].name = name
    THEN [i \in 1..Len(entries) |->
            IF entries[i].name = name THEN [name |-> name, value |-> value] ELSE entries[i]]
    ELSE Append(entries, [name |-> name, value |-> value])

\* Raise with the exception caught and the loop carried on
Swallow(e) ==
    /\ pc' = "loop"
    /\ err' = e

\* the call ends with an exception
Raise(e) ==
    /\ pc' = "raised"
    /\ err' = e

Init ==
    /\ config_in \in Configs
    /\ workspace \in {{}, {INPUT_PARAMS_FILE}}
    /\ phase = "configure"
    /\ pc = "ready"
    /\ idx = 0
    /\ out_path = "none"
    /\ config_out = <<>>
    /\ data = [core |-> EmptyParams, plugins |-> <<>>]
    /\ html_sections = <<>>
    /\ footer = <<>>
    /\ returned = [ph \in Range(Phases) |-> <<>>]
    /\ written = [ph \in Range(Phases) |-> <<>>]
    /\ err = NoErr
    /\ loaded = {}
    /\ trace = <<>>
    /\ subject = <<>>
    /\ outcome = <<>>

\* PluginLoaderCache with one loader made for each phase: only what the
\* phase itself constructed is found in the cache
LoaderPerPhase(ph, cache) ==
    {n \in cache : \E k \in 1..Len(trace) :
        trace[k] = Evt(ph, "construct", n, <<>>)}

\* self.plugin_loader: the one loader main.__init__ made serves every phase,
\* so a phase finds in its cache whatever an earlier phase constructed
PluginLoaderCache(ph, cache) == cache

\* a successful plugin_loader.load(name): the plugin is constructed unless
\* the cache holds it, then returned
LoadCalls(ph, name) ==
    (IF name \in PluginLoaderCache(ph, loaded)
     THEN <<>> ELSE <<Evt(ph, "construct", name, <<>>)>>)
        \o <<Evt(ph, "load", name, <<TRUE>>)>>

\* the value stored under `name` in an insertion-ordered dict
GetItem(entries, name) ==
    (CHOOSE e \in Range(entries) : e.name = name).value

\* the values a plugin known only through the contract may return; they
\* matter to plugin_x alone
XDataFor(name) ==
    IF name = PLUGIN_X THEN PluginXData ELSE {CHOOSE pd \in PluginXData : TRUE}
XFragmentsFor(name) ==
    IF name = PLUGIN_X THEN PluginXFragments ELSE {<<>>}

(* ---- configure ---- *)

\* plugin_main.configure(config_in[section_name]) for a loaded plugin
PluginConfigure(name, params, ws, env) ==
    IF name = DEMO1 THEN Demo1Configure(params)
    ELSE IF name = SUPPLEMENT THEN SupplementConfigure(params, ws)
    ELSE IF name = TAR THEN TarConfigure(params, ws, env)
    ELSE IF name = PWGS THEN PwgsConfigure(params, env)
    ELSE IF env.handler_ok THEN Ok(params)
    ELSE Fail(params, "PluginError", name)

\* the core configurer
CoreConfigure(params, env) ==
    IF env.handler_ok THEN Ok(params) ELSE Fail(params, "CoreError", "")

\* read_ini_path: the input file is validated, then parsed
ReadIniPath(readable) ==
    IF readable THEN NoErr ELSE Err("ConfigSourceError", "")

ConfigureStart ==
    /\ phase = "configure"
    /\ pc = "ready"
    /\ \E path \in OutPaths, readable \in BOOLEAN :
        LET check == OutputCheck(ConfigureValidator, path)
            read == ReadIniPath(readable)
            checked == IF path # "none" /\ check.kind # "AttributeError"
                       THEN <<Evt("configure", "validate_output_file", "", <<check.kind>>)>>
                       ELSE <<>>
        IN  /\ out_path' = path
            /\ IF check # NoErr
               THEN /\ Raise(check)
                    /\ trace' = trace \o checked
                    /\ UNCHANGED <<idx, config_out>>
               ELSE IF read # NoErr
               THEN /\ Raise(read)
                    /\ trace' = trace \o checked
                                    \o <<Evt("configure", "read_ini_path", "", <<read.kind>>)>>
                    /\ UNCHANGED <<idx, config_out>>
               ELSE /\ pc' = "loop"
                    /\ idx' = 1
                    /\ config_out' = <<>>
                    /\ trace' = trace \o checked
                                    \o <<Evt("configure", "read_ini_path", "", <<read.kind>>)>>
                    /\ UNCHANGED err
    /\ UNCHANGED <<subject, outcome, config_in, workspace, phase, data, html_sections, footer,
                   returned, written, loaded>>

\* one iteration of `for section_name in config_in.sections()`
ConfigureSection ==
    /\ phase = "configure"
    /\ pc = "loop"
    /\ idx <= Len(config_in)
    /\ \E env \in EnvsFor(config_in[idx].name) :
        LET section_name == config_in[idx].name
            params == config_in[idx].value
        IN  IF IsCoreSection(section_name)
            THEN LET r == CoreConfigure(params, env)
                 IN  /\ trace' = Append(trace, Evt("configure", "core", section_name, <<r>>))
                     /\ loaded' = loaded
                     /\ IF r.ok
                        THEN /\ config_out' = SetItem(config_out, section_name, r.section)
                             /\ idx' = idx + 1
                             /\ UNCHANGED <<pc, err>>
                        ELSE /\ Raise(r.err)
                             /\ UNCHANGED <<idx, config_out>>
            ELSE IF ~CanLoad(section_name)
            THEN /\ trace' = Append(trace, Evt("configure", "load", section_name, <<FALSE>>))
                 /\ Raise(Err("LoadError", section_name))
                 /\ UNCHANGED <<idx, config_out, loaded>>
            ELSE LET r == PluginConfigure(section_name, params, workspace, env)
                 IN  /\ trace' = trace
                            \o LoadCalls("configure", section_name)
                            \o <<Evt("configure", "plugin", section_name, <<r>>)>>
                     /\ loaded' = loaded \cup {section_name}
                     /\ IF r.ok
                        THEN /\ config_out' = SetItem(config_out, section_name, r.section)
                             /\ idx' = idx + 1
                             /\ UNCHANGED <<pc, err>>
                        ELSE /\ Raise(r.err)
                             /\ UNCHANGED <<idx, config_out>>
    /\ UNCHANGED <<subject, outcome, config_in, workspace, phase, out_path, data, html_sections, footer,
                   returned, written>>

\* after the loop: the configuration is written when a path was given, then returned
ConfigureFinish ==
    /\ phase = "configure"
    /\ pc = "loop"
    /\ idx > Len(config_in)
    /\ written' = IF out_path # "none"
                  THEN [written EXCEPT !["configure"] = Append(@, config_out)]
                  ELSE written
    /\ trace' = IF out_path # "none"
                THEN Append(trace, Evt("configure", "write", "", <<>>))
                ELSE trace
    /\ returned' = [returned EXCEPT !["configure"] = <<config_out>>]
    /\ pc' = "returned"
    /\ UNCHANGED <<subject, outcome, config_in, workspace, phase, idx, out_path, config_out, data,
                   html_sections, footer, err, loaded>>

(* ---- extract ---- *)

\* the configuration main.extract is given: the one configure returned
ExtractConfig == returned["configure"][1]

\* the core extractor: the core fields and an empty 'plugins' object
CoreExtract(config, env) ==
    IF env.handler_ok
    THEN [ok |-> TRUE, data |-> [core |-> GetItem(config, CORE), plugins |-> <<>>]]
    ELSE [ok |-> FALSE, data |-> [core |-> EmptyParams, plugins |-> <<>>]]

\* plugin.extract(config[section_name]) for a loaded plugin; xpd is what a
\* plugin known only through the contract returns
PluginExtract(name, config, env, xpd) ==
    LET section == GetItem(config, name)
    IN  IF name = DEMO1 THEN ExtractOk(Demo1Extract(section), Demo1Writes)
        ELSE IF name = SUPPLEMENT
        THEN IF check_assay_name(section)
             THEN ExtractOk(SupplementExtract(section, GetItem(config, CORE)), {})
             ELSE ExtractFail("DjerbaPluginError", "")
        ELSE IF name = TAR
        THEN IF env.metrics
             THEN ExtractOk(TarExtract(section), TarWrites)
             ELSE ExtractFail("OSError", "")
        ELSE IF name = PWGS THEN PwgsExtract(section, GetItem(config, CORE), env)
        ELSE IF env.handler_ok THEN ExtractOk(xpd, {})
        ELSE ExtractFail("PluginError", name)

\* ExtractLeaves with the plugin resetting the priority in its own section
ExtractRewrites(name, config) ==
    SetItem(config, name, set_my_priorities(GetItem(config, name), 0))

\* the configuration object after plugin.extract was handed it: the extract
\* methods only read it (subscripts and wrapper getters), none assigns to it
ExtractLeaves(name, config) == config

\* Admit with the entry put in front of the earlier ones
AdmitInFront(d, section_name, plugin_data) ==
    IF validate_data(plugin_data)
    THEN [ok |-> TRUE,
          data |-> [d EXCEPT !.plugins =
                        <<[name |-> section_name, value |-> plugin_data]>> \o @]]
    ELSE [ok |-> FALSE, data |-> d]

\* Admit with the new entry taking the place of the earlier ones
AdmitAlone(d, section_name, plugin_data) ==
    IF validate_data(plugin_data)
    THEN [ok |-> TRUE,
          data |-> [d EXCEPT !.plugins = <<[name |-> section_name, value |-> plugin_data]>>]]
    ELSE [ok |-> FALSE, data |-> d]

\* Admit without the validator's verdict
AdmitUnchecked(d, section_name, plugin_data) ==
    [ok |-> TRUE,
     data |-> [d EXCEPT !.plugins =
                    Append(@, [name |-> section_name, value |-> plugin_data])]]

\* self.json_validator.validate_data(plugin_data), then
\* data[self.PLUGINS][section_name] = plugin_data
Admit(d, section_name, plugin_data) ==
    IF validate_data(plugin_data)
    THEN [ok |-> TRUE,
          data |-> [d EXCEPT !.plugins = SetItem(@, section_name, plugin_data)]]
    ELSE [ok |-> FALSE, data |-> d]

ExtractStart ==
    /\ phase = "configure"
    /\ pc = "returned"
    /\ phase' = "extract"
    /\ \E path \in OutPaths, env \in EnvsFor(CORE) :
        LET check == OutputCheck(ExtractValidator, path)
            r == CoreExtract(ExtractConfig, env)
            checked == IF path # "none" /\ check.kind # "AttributeError"
                       THEN <<Evt("extract", "validate_output_file", "", <<check.kind>>)>>
                       ELSE <<>>
        IN  /\ out_path' = path
            /\ IF check # NoErr
               THEN /\ Raise(check)
                    /\ trace' = trace \o checked
                    /\ idx' = 0
                    /\ UNCHANGED data
               ELSE IF ~r.ok
               THEN /\ Raise(Err("CoreError", ""))
                    /\ trace' = trace \o checked
                                    \o <<Evt("extract", "core", CORE, <<FALSE>>)>>
                    /\ idx' = 0
                    /\ UNCHANGED data
               ELSE /\ pc' = "loop"
                    /\ idx' = 1
                    /\ data' = r.data
                    /\ trace' = trace \o checked
                                    \o <<Evt("extract", "core", CORE, <<TRUE>>)>>
                    /\ UNCHANGED err
    /\ UNCHANGED <<subject, outcome, config_in, workspace, config_out, html_sections, footer,
                   returned, written, loaded>>

\* one iteration of `for section_name in config.sections()`
ExtractSection ==
    /\ phase = "extract"
    /\ pc = "loop"
    /\ idx <= Len(ExtractConfig)
    /\ \E env \in EnvsFor(ExtractConfig[idx].name),
          xpd \in XDataFor(ExtractConfig[idx].name) :
        LET section_name == ExtractConfig[idx].name
        IN  IF IsCoreSection(section_name)
            THEN /\ idx' = idx + 1
                 /\ UNCHANGED <<workspace, pc, config_out, data, err, loaded, trace>>
            ELSE IF ~CanLoad(section_name)
            THEN /\ trace' = Append(trace, Evt("extract", "load", section_name, <<FALSE>>))
                 /\ Raise(Err("LoadError", section_name))
                 /\ UNCHANGED <<workspace, idx, config_out, data, loaded>>
            ELSE LET r == PluginExtract(section_name, ExtractConfig, env, xpd)
                     a == Admit(data, section_name, r.pd)
                     called == LoadCalls("extract", section_name)
                                 \o <<Evt("extract", "plugin", section_name,
                                          IF r.ok THEN <<r.pd>> ELSE <<>>)>>
                 IN  /\ loaded' = loaded \cup {section_name}
                     /\ workspace' = workspace \cup r.writes
                     /\ config_out' = ExtractLeaves(section_name, config_out)
                     /\ IF ~r.ok
                        THEN /\ Raise(r.err)
                             /\ trace' = trace \o called
                             /\ UNCHANGED <<idx, data>>
                        ELSE IF ~a.ok
                        THEN /\ Raise(Err("ValidationError", section_name))
                             /\ trace' = trace \o called
                                    \o <<Evt("extract", "validate_data", section_name, <<FALSE>>)>>
                             /\ UNCHANGED <<idx, data>>
                        ELSE /\ data' = a.data
                             /\ idx' = idx + 1
                             /\ trace' = trace \o called
                                    \o <<Evt("extract", "validate_data", section_name, <<TRUE>>)>>
                             /\ UNCHANGED <<pc, err>>
    /\ UNCHANGED <<subject, outcome, config_in, phase, out_path, html_sections, footer,
                   returned, written>>

\* ExtractLoopDone with the loop left while its last section is still to come
LastSectionPending == idx >= Len(ExtractConfig)

\* `for section_name in config.sections()` has no section left
ExtractLoopDone == idx > Len(ExtractConfig)

\* after the loop: the data is written when a path was given, then returned
ExtractFinish ==
    /\ phase = "extract"
    /\ pc = "loop"
    /\ ExtractLoopDone
    /\ written' = IF out_path # "none"
                  THEN [written EXCEPT !["extract"] = Append(@, data)]
                  ELSE written
    /\ trace' = IF out_path # "none"
                THEN Append(trace, Evt("extract", "write", "", <<>>))
                ELSE trace
    /\ returned' = [returned EXCEPT !["extract"] = <<data>>]
    /\ pc' = "returned"
    /\ UNCHANGED <<subject, outcome, config_in, workspace, phase, idx, out_path, config_out, data,
                   html_sections, footer, err, loaded>>

(* ---- render ---- *)

\* the report data main.render is given: the one extract returned
RenderData == returned["extract"][1]

\* plugin.render(data[self.PLUGINS][plugin_name]) for a loaded plugin; xhtml
\* is what a plugin known only through the contract returns
PluginRender(name, pd, env, xhtml) ==
    IF name = DEMO1 THEN Demo1Render(pd)
    ELSE IF name = SUPPLEMENT THEN MakoRender("supplementary_materials_template.html", pd)
    ELSE IF name = TAR THEN MakoRender("sample_template.html", pd)
    ELSE IF name = PWGS THEN PwgsRender(pd)
    ELSE IF env.handler_ok THEN [ok |-> TRUE, html |-> xhtml]
    ELSE [ok |-> FALSE, html |-> <<>>]

\* RenderLeaves with the plugin dropping 'merge_inputs' from its own entry
RenderDrops(name, d) ==
    [d EXCEPT !.plugins =
        SetItem(@, name, [k \in DOMAIN GetItem(@, name) \ {"merge_inputs"} |->
                            GetItem(@, name)[k]])]

\* the report data object after plugin.render was handed one of its entries:
\* the render methods pass it to the validator or the template, none assigns to it
RenderLeaves(name, d) == d

\* AppendSection with the new section put right after the header
InsertAfterHeader(sections, html) ==
    IF sections = <<>> THEN <<html>>
    ELSE <<Head(sections), html>> \o Tail(sections)

\* html_sections.append(...)
AppendSection(sections, html) == Append(sections, html)

RenderStart ==
    /\ phase = "extract"
    /\ pc = "returned"
    /\ phase' = "render"
    /\ \E path \in OutPaths, env \in EnvsFor(CORE) :
        LET check == OutputCheck(RenderValidator, path)
            hf == CoreRender(RenderData)
            checked == IF path # "none" /\ check.kind # "AttributeError"
                       THEN <<Evt("render", "validate_output_file", "", <<check.kind>>)>>
                       ELSE <<>>
        IN  /\ out_path' = path
            /\ IF check # NoErr
               THEN /\ Raise(check)
                    /\ trace' = trace \o checked
                    /\ idx' = 0
                    /\ UNCHANGED <<html_sections, footer>>
               ELSE IF ~env.handler_ok
               THEN /\ Raise(Err("CoreError", ""))
                    /\ trace' = trace \o checked
                                    \o <<Evt("render", "core", CORE, <<>>)>>
                    /\ idx' = 0
                    /\ UNCHANGED <<html_sections, footer>>
               ELSE /\ pc' = "loop"
                    /\ idx' = 1
                    /\ html_sections' = <<hf.header>>
                    /\ footer' = hf.footer
                    /\ trace' = trace \o checked
                                    \o <<Evt("render", "core", CORE, <<hf>>)>>
                    /\ UNCHANGED err
    /\ UNCHANGED <<subject, outcome, config_in, workspace, config_out, data, returned, written, loaded>>

\* one iteration of `for plugin_name in data[self.PLUGINS]`
RenderSection ==
    /\ phase = "render"
    /\ pc = "loop"
    /\ idx <= Len(RenderData.plugins)
    /\ \E env \in EnvsFor(RenderData.plugins[idx].name),
          xhtml \in XFragmentsFor(RenderData.plugins[idx].name) :
        LET plugin_name == RenderData.plugins[idx].name
        IN  IF ~CanLoad(plugin_name)
            THEN /\ trace' = Append(trace, Evt("render", "load", plugin_name, <<FALSE>>))
                 /\ Raise(Err("LoadError", plugin_name))
                 /\ UNCHANGED <<idx, data, html_sections, loaded>>
            ELSE LET r == PluginRender(plugin_name, GetItem(RenderData.plugins, plugin_name),
                                       env, xhtml)
                     called == LoadCalls("render", plugin_name)
                                 \o <<Evt("render", "plugin", plugin_name,
                                          IF r.ok THEN <<r.html>> ELSE <<>>)>>
                 IN  /\ loaded' = loaded \cup {plugin_name}
                     /\ data' = RenderLeaves(plugin_name, data)
                     /\ trace' = trace \o called
                     /\ IF r.ok
                        THEN /\ html_sections' = AppendSection(html_sections, r.html)
                             /\ idx' = idx + 1
                             /\ UNCHANGED <<pc, err>>
                        ELSE /\ Raise(Err("RenderError", plugin_name))
                             /\ UNCHANGED <<idx, html_sections>>
    /\ UNCHANGED <<subject, outcome, config_in, workspace, phase, out_path, config_out, footer,
                   returned, written>>

\* after the loop: the footer is appended, the sections are joined, the
\* document is written when a path was given, then returned
RenderFinish ==
    /\ phase = "render"
    /\ pc = "loop"
    /\ idx > Len(RenderData.plugins)
    /\ LET sections == AppendSection(html_sections, footer)
           html == Join(sections)
       IN  /\ html_sections' = sections
           /\ written' = IF out_path # "none"
                         THEN [written EXCEPT !["render"] = Append(@, html)]
                         ELSE written
           /\ returned' = [returned EXCEPT !["render"] = <<html>>]
    /\ trace' = IF out_path # "none"
                THEN Append(trace, Evt("render", "write", "", <<>>))
                ELSE trace
    /\ pc' = "returned"
    /\ UNCHANGED <<subject, outcome, config_in, workspace, phase, idx, out_path, config_out, data,
                   footer, err, loaded>>

Next ==
    \/ ConfigureStart
    \/ ConfigureSection
    \/ ConfigureFinish
    \/ ExtractStart
    \/ ExtractSection
    \/ ExtractFinish
    \/ RenderStart
    \/ RenderSection
    \/ RenderFinish

Spec == Init /\ [][Next]_vars

----------------------------------------------------------------------------
(* main.render called on report data that did not come from main.extract, *)
(* such as data read back from a JSON file                                *)

\* plugin data that meets the schema
Conforming(name) ==
    [plugin_name |-> name \o " plugin", priorities |-> "100",
     attributes |-> {"clinical"}, merge_inputs |-> <<>>, results |-> {}]

\* r without the key k
Without(r, k) == [j \in DOMAIN r \ {k} |-> r[j]]

\* the plugin data such report data may hold for a plugin: conforming, or
\* with the required key 'merge_inputs' missing
GivenPluginData(name) == {Conforming(name), Without(Conforming(name), "merge_inputs")}

RECURSIVE EntriesOver(_)
EntriesOver(ns) ==
    IF ns = <<>> THEN {<<>>}
    ELSE {<<[name |-> Head(ns), value |-> pd]>> \o rest :
            pd \in GivenPluginData(Head(ns)), rest \in EntriesOver(Tail(ns))}

ReportDatas ==
    LET names == {ns \in UNION {[1..n -> SectionNamesAllowed \ {CORE}] : n \in 0..MaxEntries} :
                    \A i, j \in 1..Len(ns) : i # j => ns[i] # ns[j]}
    IN  {[core |-> [author |-> a, tumour_id |-> "T1"], plugins |-> es] :
            a \in CoreAuthors, es \in UNION {EntriesOver(ns) : ns \in names}}

RenderInit ==
    /\ config_in = <<>>
    /\ workspace = {}
    /\ phase = "extract"
    /\ pc = "returned"
    /\ idx = 0
    /\ out_path = "none"
    /\ config_out = <<>>
    /\ data \in ReportDatas
    /\ html_sections = <<>>
    /\ footer = <<>>
    /\ returned = [ph \in Range(Phases) |-> IF ph = "extract" THEN <<data>> ELSE <<>>]
    /\ written = [ph \in Range(Phases) |-> <<>>]
    /\ err = NoErr
    /\ loaded = {}
    /\ trace = <<>>
    /\ subject = <<>>
    /\ outcome = <<>>

RenderNext ==
    \/ RenderStart
    \/ RenderSection
    \/ RenderFinish

RenderSpec == RenderInit /\ [][RenderNext]_vars

----------------------------------------------------------------------------
(* Properties *)

NonCore(names) == SelectSeq(names, LAMBDA n : n # CORE)

\* the events of one phase, in order
EventsOf(ph) == SelectSeq(trace, LAMBDA e : e.phase = ph)
\* the events of one phase and one operation, in order
OpsOf(ph, op) == SelectSeq(trace, LAMBDA e : e.phase = ph /\ e.op = op)

\* C1: a successful main.extract returns report data whose 'plugins' keys
\* are the non-core section names of the configuration, in configuration order
C1_ExtractKeysFollowConfig ==
    returned["extract"] # <<>> =>
        Keys(returned["extract"][1].plugins) = NonCore(SectionNames(ExtractConfig))

\* extract has returned data holding two plugins, the core section not first
C1_Witness ==
    /\ returned["extract"] # <<>>
    /\ Len(returned["extract"][1].plugins) >= 2
    /\ ExtractConfig[1].name # CORE

\* header, NL, fragment_1, NL, ..., fragment_k, NL, footer
RECURSIVE AfterHeader(_, _)
AfterHeader(fragments, foot) ==
    IF fragments = <<>> THEN <<NL>> \o foot
    ELSE <<NL>> \o Head(fragments) \o AfterHeader(Tail(fragments), foot)

\* the fragments the plugins' render calls returned, in call order
RenderedFragments ==
    LET calls == OpsOf("render", "plugin")
    IN  [i \in 1..Len(calls) |-> calls[i].result[1]]

\* C2: the document main.render returns is the header, the fragments of the
\* identifiers of report_data.plugins in insertion order and the footer, with
\* one newline between consecutive elements; with no plugin entry it is
\* header, newline, footer and no plugin is loaded
C2_DocumentIsJoinInInsertionOrder ==
    returned["render"] # <<>> =>
        LET hf == CoreRender(RenderData)
            calls == OpsOf("render", "plugin")
        IN  /\ [i \in 1..Len(calls) |-> calls[i].section] = Keys(RenderData.plugins)
            /\ returned["render"][1]
                  = hf.header \o AfterHeader(RenderedFragments, hf.footer)
            /\ RenderData.plugins = <<>> =>
                  /\ returned["render"][1] = hf.header \o <<NL>> \o hf.footer
                  /\ OpsOf("render", "load") = <<>>

\* a document was returned for report data in which a plugin of priority 1200
\* precedes a plugin of priority 100
C2_Witness ==
    /\ returned["render"] # <<>>
    /\ \E i, j \in 1..Len(RenderData.plugins) :
        /\ i < j
        /\ RenderData.plugins[i].value.priorities
              = ToString(SUPPLEMENT_DEFAULT_CONFIG_PRIORITY)
        /\ RenderData.plugins[j].value.priorities
              = ToString(DEMO1_DEFAULT_CONFIG_PRIORITY)
        /\ SUPPLEMENT_DEFAULT_CONFIG_PRIORITY > DEMO1_DEFAULT_CONFIG_PRIORITY

\* C3: every plugin data object in the report data's 'plugins' map was
\* checked by the validator and passed; one that fails validation is never
\* inserted, and extract then ends with a Validation Error, returning nothing
C3_OnlyValidatedDataAdmitted ==
    /\ \A i \in 1..Len(data.plugins) :
        /\ RequiredKeys \subseteq DOMAIN data.plugins[i].value
        /\ \E k \in 1..Len(trace) :
            trace[k] = Evt("extract", "validate_data", data.plugins[i].name, <<TRUE>>)
    /\ \A k \in 1..Len(trace) :
        (/\ trace[k].phase = "extract"
         /\ trace[k].op = "plugin"
         /\ trace[k].result # <<>>
         /\ "results" \notin DOMAIN trace[k].result[1])
        => /\ phase = "extract"
           /\ pc = "raised"
           /\ err = Err("ValidationError", trace[k].section)
           /\ returned["extract"] = <<>>
           /\ trace[k].section \notin Range(Keys(data.plugins))

\* a plugin's extract has returned data without 'results', after another
\* plugin's data was admitted
C3_Witness ==
    /\ data.plugins # <<>>
    /\ \E k \in 1..Len(trace) :
        /\ trace[k].phase = "extract"
        /\ trace[k].op = "plugin"
        /\ trace[k].result # <<>>
        /\ "results" \notin DOMAIN trace[k].result[1]

\* the section names the phase in progress iterates over
PhaseSections ==
    IF phase = "configure" THEN SectionNames(config_in)
    ELSE IF phase = "extract" THEN SectionNames(ExtractConfig)
    ELSE Keys(RenderData.plugins)

\* the handler calls of the phase in progress: core handlers, loads, plugin calls
HandlerCalls ==
    SelectSeq(trace, LAMBDA e : e.phase = phase /\ e.op \in {"core", "load", "plugin"})

\* C4: once a section's handler has failed, the call has ended at that
\* section: no handler of a later section was invoked, nothing was returned
\* and nothing was written to the phase's output path
C4_AllOrNothing ==
    err # NoErr =>
        /\ pc = "raised"
        /\ returned[phase] = <<>>
        /\ written[phase] = <<>>
        /\ LET calls == HandlerCalls
               sections == PhaseSections
           IN  \A k \in 1..Len(calls) :
                \/ calls[k].section = CORE /\ phase # "configure"
                \/ \E i \in 1..idx : /\ i <= Len(sections)
                                     /\ sections[i] = calls[k].section

\* a plugin handler failed with a later section still to come and an output
\* path given
C4_Witness ==
    /\ pc = "raised"
    /\ phase = "render"
    /\ out_path = "writable"
    /\ idx >= 1
    /\ idx < Len(PhaseSections)

\* the error kinds that report a parameter left unresolved
ParameterErrorKinds == {"ParameterError", "DjerbaPluginError"}

ConfigureEnded == phase = "configure" /\ pc \in {"raised", "returned"}

\* C5 as stated: configure either fails with a Parameter Error that names a
\* parameter, or returns N+1 sections with the input's names in the input's order
C5_Original ==
    ConfigureEnded =>
        \/ /\ pc = "raised"
           /\ err.kind \in ParameterErrorKinds
           /\ err.param # ""
        \/ /\ pc = "returned"
           /\ SectionNames(returned["configure"][1]) = SectionNames(config_in)
           /\ Len(returned["configure"][1]) = Len(NonCore(SectionNames(config_in))) + 1

\* C5, amended: configure either fails with an error (of whatever kind) and
\* returns nothing, or returns N+1 sections with the input's names in the
\* input's order
C5_ConfigureFailsOrKeepsSections ==
    /\ (phase = "configure" /\ pc = "raised") =>
          /\ err # NoErr
          /\ returned["configure"] = <<>>
    /\ returned["configure"] # <<>> =>
          /\ SectionNames(returned["configure"][1]) = SectionNames(config_in)
          /\ Len(returned["configure"][1]) = Len(NonCore(SectionNames(config_in))) + 1

\* configure has returned three sections, the core section not the first
C5_Witness ==
    /\ returned["configure"] # <<>>
    /\ Len(returned["configure"][1]) = 3
    /\ config_in[1].name # CORE

\* the configuration a phase iterates over, <<>> while there is none yet
ConfigOf(ph) ==
    IF ph = "configure" THEN config_in
    ELSE IF returned["configure"] = <<>> THEN <<>>
    ELSE ExtractConfig

PhaseIndex(ph) == CHOOSE i \in 1..Len(Phases) : Phases[i] = ph

\* how many sections of phase ph have been taken up by its loop
Attempted(ph) ==
    IF PhaseIndex(ph) > PhaseIndex(phase) THEN 0
    ELSE IF PhaseIndex(ph) < PhaseIndex(phase) THEN Len(ConfigOf(ph))
    ELSE IF pc = "ready" THEN 0
    ELSE IF pc = "loop" THEN idx - 1
    ELSE IF pc = "raised" THEN idx
    ELSE Len(ConfigOf(ph))

CountOf(ph, op, section) ==
    Cardinality({k \in 1..Len(trace) :
        trace[k].phase = ph /\ trace[k].op = op /\ trace[k].section = section})

\* C6: in configure and extract the core section goes to the core handler
\* alone and never to the plugin loader; every other section taken up by the
\* loop is resolved through the loader exactly once in that phase and, once
\* loaded, handled by that plugin exactly once
C6_CoreNeverLoaded ==
    \A ph \in {"configure", "extract"} :
        /\ \A k \in 1..Len(trace) :
            trace[k].phase = ph =>
                /\ trace[k].op \in {"load", "plugin"} => trace[k].section # CORE
                /\ trace[k].op = "core" => trace[k].section = CORE
        /\ \A i \in 1..Attempted(ph) :
            LET name == ConfigOf(ph)[i].name
            IN  IF name = CORE
                THEN /\ CountOf(ph, "load", name) = 0
                     /\ CountOf(ph, "core", name) = 1
                ELSE /\ CountOf(ph, "load", name) = 1
                     /\ CountOf(ph, "core", name) = 0
                     /\ CountOf(ph, "plugin", name)
                          = IF name \in KnownPlugins THEN 1 ELSE 0
        /\ Len(OpsOf(ph, "load"))
              = Len(NonCore(SubSeq(SectionNames(ConfigOf(ph)), 1, Attempted(ph))))

\* extract has returned for a configuration whose core section comes after a plugin
C6_Witness ==
    /\ returned["extract"] # <<>>
    /\ Len(ExtractConfig) >= 2
    /\ ExtractConfig[1].name # CORE

\* C7: in the configuration a successful configure returns, demo1's
\* 'question', supplement.body's three discovered parameters and tar.sample's
\* ten discovered parameters are present and not null
C7_RequiredAndDiscoveredSet ==
    returned["configure"] # <<>> =>
        \A i \in 1..Len(returned["configure"][1]) :
            LET section == returned["configure"][1][i]
                needed == IF section.name = DEMO1 THEN {"question"}
                          ELSE IF section.name = SUPPLEMENT
                          THEN {"assay", "user_supplied_draft_date", "report_signoff_date"}
                          ELSE IF section.name = TAR
                          THEN {"group_id", "normal_id", "oncotree_code", "known_variants",
                                "ichorcna_file", "raw_coverage", "consensus_cruncher_file",
                                "consensus_cruncher_file_normal", "collapsed_coverage_pl",
                                "collapsed_coverage_bc"}
                          ELSE {}
            IN  \A p \in needed :
                    /\ p \in DOMAIN section.value
                    /\ section.value[p] # NULL

\* configure has returned for a configuration whose tar.sample and
\* supplement.body sections supplied none of their discovered parameters
C7_Witness ==
    /\ returned["configure"] # <<>>
    /\ \E i, j \in 1..Len(config_in) :
        /\ config_in[i].name = TAR
        /\ config_in[i].value = EmptyParams
        /\ config_in[j].name = SUPPLEMENT
        /\ config_in[j].value = EmptyParams

\* C8 as stated, for a configuration file that can be read and whose sections
\* before demo1 are handled without error: with 'question' missing from the
\* demo1 section, configure ends with a Parameter Error naming 'question',
\* and no configuration is returned or written
C8_Original ==
    \A i \in 1..Len(config_in) :
        (/\ config_in[i].name = DEMO1
         /\ "question" \notin DOMAIN config_in[i].value
         /\ ConfigureEnded
         /\ err.kind # "ConfigSourceError"
         /\ ~(pc = "raised" /\ idx >= 1 /\ idx < i))
        => /\ pc = "raised"
           /\ err = Err("ParameterError", "question")
           /\ returned["configure"] = <<>>
           /\ written["configure"] = <<>>

\* the discovered parameters that only input_params.json can supply
FromInputParams(name) ==
    IF name = TAR THEN {"group_id", "normal_id", "oncotree_code", "known_variants"}
    ELSE IF name = SUPPLEMENT THEN {"assay"}
    ELSE {}

\* C9 as stated: a tar.sample or supplement.body configure call that finds a
\* discovered parameter null, with input_params.json absent from the
\* workspace, fails with a Parameter Error naming such a parameter
C9_Original ==
    \A k \in 1..Len(trace) :
        (/\ trace[k].phase = "configure"
         /\ trace[k].op = "plugin"
         /\ trace[k].section \in {TAR, SUPPLEMENT}
         /\ INPUT_PARAMS_FILE \notin workspace
         /\ FromInputParams(trace[k].section)
                \ DOMAIN GetItem(config_in, trace[k].section) # {})
        => /\ ~trace[k].result[1].ok
           /\ trace[k].result[1].err.kind \in ParameterErrorKinds
           /\ trace[k].result[1].err.param
                \in FromInputParams(trace[k].section)
                        \ DOMAIN GetItem(config_in, trace[k].section)

\* C10 as stated: a call given an unwritable output path ends with an
\* Output-Path Error, before the configuration is read and before any handler runs
C10_Original ==
    (out_path = "unwritable" /\ pc # "ready") =>
        /\ pc = "raised"
        /\ err.kind = "OutputPathError"
        /\ \A k \in 1..Len(trace) :
            trace[k].phase = phase => trace[k].op = "validate_output_file"

\* a call recorded in the trace that did not succeed
FailedCall(e) ==
    IF e.op \in {"load", "validate_data"} THEN e.result = <<FALSE>>
    ELSE IF e.op = "read_ini_path" THEN e.result # <<"none">>
    ELSE IF e.op \in {"plugin", "core"}
    THEN IF e.phase = "configure" THEN ~e.result[1].ok
         ELSE IF e.phase = "extract" /\ e.op = "core" THEN e.result = <<FALSE>>
         ELSE e.result = <<>>
    ELSE FALSE

\* C11 as stated: a phase given a writable output path, all of whose calls
\* succeeded, has written its output to the path exactly once, as the last
\* thing it did, and the content written is the value it returns
C11_Original ==
    (/\ pc \in {"raised", "returned"}
     /\ out_path = "writable"
     /\ \A k \in 1..Len(EventsOf(phase)) : ~FailedCall(EventsOf(phase)[k]))
    => /\ pc = "returned"
       /\ written[phase] = <<returned[phase][1]>>
       /\ Len(OpsOf(phase, "write")) = 1
       /\ EventsOf(phase)[Len(EventsOf(phase))].op = "write"

\* C12: within one run each plugin identifier is constructed at most once;
\* every successful load of it, in whatever phase, comes after that one
\* construction, and the loader's cache holds exactly the identifiers constructed
C12_ConstructedAtMostOnce ==
    /\ \A k \in 1..Len(trace) :
        trace[k].op = "construct" =>
            \A j \in 1..(k - 1) :
                ~(trace[j].op = "construct" /\ trace[j].section = trace[k].section)
    /\ \A k \in 1..Len(trace) :
        (trace[k].op = "load" /\ trace[k].result = <<TRUE>>)
        => \E c \in 1..(k - 1) :
            trace[c].op = "construct" /\ trace[c].section = trace[k].section
    /\ loaded = {trace[k].section : k \in {c \in 1..Len(trace) : trace[c].op = "construct"}}
    /\ loaded \subseteq KnownPlugins

\* one plugin was loaded by configure, by extract and by render
C12_Witness ==
    \E name \in KnownPlugins :
        \A ph \in Range(Phases) :
            \E k \in 1..Len(trace) : trace[k] = Evt(ph, "load", name, <<TRUE>>)

\* the handler invocations of a phase, in order: the plugins' handlers, and
\* in configure the core configurer, which the loop calls like a plugin
Handlers(ph) ==
    SelectSeq(trace, LAMBDA e :
        e.phase = ph /\ (e.op = "plugin" \/ (e.op = "core" /\ ph = "configure")))

\* the sections whose handlers a phase is to invoke, in order
SectionsOf(ph) ==
    IF ph = "configure" THEN SectionNames(config_in)
    ELSE IF ph = "extract" THEN NonCore(SectionNames(ConfigOf("extract")))
    ELSE IF returned["extract"] = <<>> THEN <<>>
    ELSE Keys(RenderData.plugins)

Succeeded(ph) == SelectSeq(Handlers(ph), LAMBDA e : ~FailedCall(e))

\* C13: the calls of a run are made one phase after the other; within a
\* phase the handlers are invoked in section order, each only after the one
\* before it has returned; extract makes no call before configure has handled
\* every section, and render none before extract has handled and validated
\* every section
C13_StrictlySequential ==
    /\ \A k \in 1..(Len(trace) - 1) :
        \/ trace[k].phase = trace[k + 1].phase
        \/ PhaseIndex(trace[k].phase) < PhaseIndex(trace[k + 1].phase)
    /\ \A ph \in Range(Phases) :
        LET h == Handlers(ph)
            sections == SectionsOf(ph)
        IN  /\ Len(h) <= Len(sections)
            /\ \A i \in 1..Len(h) :
                /\ h[i].section = sections[i]
                /\ i < Len(h) => ~FailedCall(h[i])
    /\ phase # "configure" =>
        /\ returned["configure"] # <<>>
        /\ Len(Succeeded("configure")) = Len(config_in)
    /\ phase = "configure" => \A k \in 1..Len(trace) : trace[k].phase = "configure"
    /\ phase = "render" =>
        LET validated == OpsOf("extract", "validate_data")
        IN  /\ returned["extract"] # <<>>
            /\ Len(Succeeded("extract")) = Len(SectionsOf("extract"))
            /\ [i \in 1..Len(validated) |-> validated[i].section] = SectionsOf("extract")
            /\ \A i \in 1..Len(validated) : validated[i].result = <<TRUE>>
    /\ phase # "render" => \A k \in 1..Len(trace) : trace[k].phase # "render"

\* render has invoked two plugins' handlers
C13_Witness == Len(Handlers("render")) >= 2

\* the plugins of the source tree
SourcePlugins == {DEMO1, SUPPLEMENT, TAR, PWGS}

\* C14 as stated: a render of demo1, supplement.body, tar.sample or
\* pwgs.sample that returned a fragment was given plugin data that conforms to
\* the schema
C14_Original ==
    \A k \in 1..Len(trace) :
        (/\ trace[k].phase = "render"
         /\ trace[k].op = "plugin"
         /\ trace[k].section \in SourcePlugins
         /\ trace[k].result # <<>>)
        => validate_data(GetItem(RenderData.plugins, trace[k].section))

\* C15: during main.extract and after it, whether it returned or failed, the
\* configuration object it was handed holds the sections, keys and values
\* that configure returned
C15_ExtractLeavesConfiguration ==
    phase \in {"extract", "render"} => config_out = returned["configure"][1]

\* extract has failed after two plugins' extract methods were called
C15_Witness ==
    /\ phase = "extract"
    /\ pc = "raised"
    /\ Len(OpsOf("extract", "plugin")) >= 2

\* another core section: the same options with other values
OtherCore == [author |-> "B", tumour_id |-> "T2"]

\* an environment in which every lookup and every file read succeeds
AllOk == [provenance |-> TRUE, qcetl |-> TRUE, metrics |-> TRUE, handler_ok |-> TRUE]

\* C16 as stated: the plugin data a plugin's extract returned is what it
\* returns for the configuration that differs only in the core section
C16_Original ==
    \A k \in 1..Len(trace) :
        (/\ trace[k].phase = "extract"
         /\ trace[k].op = "plugin"
         /\ trace[k].section \in SourcePlugins
         /\ trace[k].result # <<>>)
        => LET other == PluginExtract(trace[k].section,
                                      SetItem(ExtractConfig, CORE, OtherCore),
                                      AllOk, CHOOSE pd \in PluginXData : TRUE)
           IN  /\ other.ok
               /\ other.pd = trace[k].result[1]

\* the configuration holds the core section and one demo1 section that
\* supplies 'question' and nothing else
CoreAndDemo1 ==
    /\ Len(config_in) = 2
    /\ Range(SectionNames(config_in)) = {CORE, DEMO1}
    /\ DOMAIN GetItem(config_in, DEMO1) = {"question"}

\* C17: for core plus one demo1 section supplying 'question', configure
\* returns the section with clinical true, supplementary false and dummy_file
\* null; extract returns demo1 data with empty results and a
\* gene_information_merger list of two records; render returns the header,
\* the one demo1 fragment and the footer, in that order
C17_Demo1EndToEnd ==
    CoreAndDemo1 =>
        /\ returned["configure"] # <<>> =>
            LET section == GetItem(returned["configure"][1], DEMO1)
            IN  /\ section["question"] = GetItem(config_in, DEMO1)["question"]
                /\ section["clinical"] = "True"
                /\ section["supplementary"] = "False"
                /\ section["dummy_file"] = NULL
        /\ returned["extract"] # <<>> =>
            LET pd == GetItem(returned["extract"][1].plugins, DEMO1)
            IN  /\ Keys(returned["extract"][1].plugins) = <<DEMO1>>
                /\ pd.results = {}
                /\ Len(pd.merge_inputs) = 1
                /\ pd.merge_inputs[1].element = "gene_information_merger"
                /\ Len(pd.merge_inputs[1].records) = 2
                /\ pd.attributes = {"clinical"}
        /\ returned["render"] # <<>> =>
            LET hf == CoreRender(RenderData)
            IN  /\ returned["render"][1]
                      = hf.header \o <<NL>>
                          \o Demo1Render(GetItem(RenderData.plugins, DEMO1)).html
                          \o <<NL>> \o hf.footer
                /\ Len(OpsOf("render", "plugin")) = 1

\* the three phases have returned for such a configuration
C17_Witness ==
    /\ CoreAndDemo1
    /\ returned["render"] # <<>>

\* C18: main.extract starts with an empty 'plugins' map; a step of extract
\* keeps every entry of the map as it is and adds at most one, for an identifier
\* not yet present, right after that plugin's extract returned the value and
\* the validator accepted it
C18_PluginsGrowMonotonically ==
    [][phase' = "extract" =>
        /\ phase = "configure" => data'.plugins = <<>>
        /\ phase = "extract" =>
            /\ Len(data.plugins) <= Len(data'.plugins)
            /\ Len(data'.plugins) <= Len(data.plugins) + 1
            /\ \A i \in 1..Len(data.plugins) : data'.plugins[i] = data.plugins[i]
            /\ Len(data'.plugins) = Len(data.plugins) + 1 =>
                LET e == data'.plugins[Len(data'.plugins)]
                IN  /\ e.name \notin Range(Keys(data.plugins))
                    /\ trace'[Len(trace')]
                          = Evt("extract", "validate_data", e.name, <<TRUE>>)
                    /\ trace'[Len(trace') - 1]
                          = Evt("extract", "plugin", e.name, <<e.value>>)
                    /\ Len(trace') > Len(trace)
      ]_vars

\* extract has admitted the data of two plugins
C18_Witness ==
    /\ phase = "extract"
    /\ Len(data.plugins) >= 2

\* C19: during main.render and after it, whether it returned or failed, the
\* report data object it was handed (core fields and every entry of the
\* 'plugins' map) equals what it was when the call began
C19_RenderLeavesReportData ==
    phase = "render" => data = returned["extract"][1]

\* render has ended after pwgs.sample's render was called on its entry
C19_Witness ==
    /\ phase = "render"
    /\ pc \in {"returned", "raised"}
    /\ \E k \in 1..Len(trace) :
        /\ trace[k].phase = "render"
        /\ trace[k].op = "plugin"
        /\ trace[k].section = PWGS

\* the artifacts a plugin's extract writes to the workspace
WritesOf(name) ==
    IF name = DEMO1 THEN Demo1Writes
    ELSE IF name = TAR THEN TarWrites
    ELSE IF name = PWGS THEN PwgsWrites
    ELSE {}

\* the plugins whose extract has returned in this run
Extracted ==
    {n \in SourcePlugins : \E k \in 1..Len(trace) :
        /\ trace[k].phase = "extract"
        /\ trace[k].op = "plugin"
        /\ trace[k].section = n
        /\ trace[k].result # <<>>}

----------------------------------------------------------------------------
(* Library functions called on their own, outside a run of the orchestrator *)

\* the orchestrator is not running; the workspace is set by each specification
MainIdle ==
    /\ config_in = <<>>
    /\ phase = "configure"
    /\ pc = "ready"
    /\ idx = 0
    /\ out_path = "none"
    /\ config_out = <<>>
    /\ data = [core |-> EmptyParams, plugins |-> <<>>]
    /\ html_sections = <<>>
    /\ footer = <<>>
    /\ returned = [ph \in Range(Phases) |-> <<>>]
    /\ written = [ph \in Range(Phases) |-> <<>>]
    /\ err = NoErr
    /\ loaded = {}
    /\ trace = <<>>

\* what a call produced: the value it returned, or the exception it raised
Returns(v) == [ok |-> TRUE, value |-> v]
Raises(kind) == [ok |-> FALSE, kind |-> kind]

----------------------------------------------------------------------------
(* tar.sample: process_consensus_cruncher *)

\* longest metrics file, in rows
MaxRows == 4

BAIT_SET == "BAIT_SET"

\* a field of a tab-separated row is a piece of text: words, or a decimal
\* number written with one digit after the point
Text(t) == [text |-> t]
Decimal(w, f) == [whole |-> w, tenths |-> f]

\* float(): the number the text denotes, counted in tenths
float(field) == 10 * field.whole + field.tenths

\* round with the fraction cut off
round_down(x) == x \div 10

\* int(round(x, 0)) of a number counted in tenths: the nearest integer, a tie
\* going to the even neighbour
round(x) ==
    LET q == x \div 10
        r == x % 10
    IN  IF r < 5 THEN q
        ELSE IF r > 5 THEN q + 1
        ELSE IF q % 2 = 0 THEN q ELSE q + 1

\* `for row in reader_file`, from the state (header_line, unique_coverage) on;
\* unique_coverage is <<>> while the name is unbound
RECURSIVE ReadMetricsRows(_, _, _)
ReadMetricsRows(rows, header_line, unique_coverage) ==
    IF rows = <<>>
    THEN IF unique_coverage = <<>> THEN Raises("UnboundLocalError")
         ELSE Returns(round(unique_coverage[1]))
    ELSE LET row == Head(rows)
         IN  IF row = <<>>
             THEN ReadMetricsRows(Tail(rows), header_line, unique_coverage)
             ELSE IF row[1] = Text(BAIT_SET)
             THEN ReadMetricsRows(Tail(rows), TRUE, unique_coverage)
             ELSE IF header_line
             THEN IF Len(row) < 10 THEN Raises("IndexError")
                  ELSE IF DOMAIN row[10] # DOMAIN Decimal(0, 0) THEN Raises("ValueError")
                  ELSE ReadMetricsRows(Tail(rows), FALSE, <<float(row[10])>>)
             ELSE ReadMetricsRows(Tail(rows), header_line, unique_coverage)

process_consensus_cruncher(consensus_cruncher_file) ==
    ReadMetricsRows(consensus_cruncher_file, FALSE, <<>>)

\* the header row and a row of metrics
HeaderRow ==
    <<Text(BAIT_SET)>> \o [i \in 1..8 |-> Text("COLUMN")] \o <<Text("MEAN_TARGET_COVERAGE")>>
MetricsRow(tenth) ==
    <<Text("bait")>> \o [i \in 1..8 |-> Decimal(0, 0)] \o <<tenth>>

\* the files: rows drawn from a blank line (csv.reader yields the empty list),
\* a comment line of one field, the header row, and rows of metrics whose
\* tenth column is 2.4, 2.5, 3.5 or 910.6
MetricsInit ==
    /\ MainIdle
    /\ workspace = {}
    /\ LET coverages == {Decimal(2, 4), Decimal(2, 5), Decimal(3, 5), Decimal(910, 6)}
           rows == {<<>>, <<Text("## METRICS CLASS")>>, HeaderRow}
                       \cup {MetricsRow(t) : t \in coverages}
       IN  subject \in {[fn |-> "process_consensus_cruncher", file |-> f] :
                           f \in UNION {[1..n -> rows] : n \in 0..MaxRows}}
    /\ outcome = <<>>

CallProcessConsensusCruncher ==
    /\ outcome = <<>>
    /\ subject.fn = "process_consensus_cruncher"
    /\ outcome' = <<process_consensus_cruncher(subject.file)>>
    /\ UNCHANGED subject
    /\ UNCHANGED main_vars

MetricsSpec == MetricsInit /\ [][CallProcessConsensusCruncher]_vars

\* positions of the header rows of a file
HeaderRowsOf(file) == {i \in 1..Len(file) : file[i] # <<>> /\ file[i][1] = Text(BAIT_SET)}

\* position of the first non-empty row after position h, 0 if there is none
FirstRowAfter(file, h) ==
    LET later == {i \in (h + 1)..Len(file) : file[i] # <<>>}
    IN  IF later = {} THEN 0 ELSE CHOOSE i \in later : \A j \in later : i <= j

\* a file with one header row, the first non-empty row after it holding a
\* number in its tenth column
WellFormedMetrics(file) ==
    /\ Cardinality(HeaderRowsOf(file)) = 1
    /\ LET h == CHOOSE i \in HeaderRowsOf(file) : TRUE
           d == FirstRowAfter(file, h)
       IN  /\ d # 0
           /\ Len(file[d]) >= 10
           /\ DOMAIN file[d][10] = DOMAIN Decimal(0, 0)

\* C21: for a metrics file with one header row, process_consensus_cruncher
\* returns the tenth column of the first non-empty row after the header,
\* rounded to a nearest integer (no integer is nearer to the value), whatever
\* the rows before the header and after that row are
C21_ReturnsRoundedTenthColumn ==
    (outcome # <<>> /\ WellFormedMetrics(subject.file)) =>
        LET h == CHOOSE i \in HeaderRowsOf(subject.file) : TRUE
            x == float(subject.file[FirstRowAfter(subject.file, h)][10])
            r == outcome[1]
        IN  /\ r.ok
            /\ 10 * r.value - x <= 5
            /\ x - 10 * r.value <= 5

\* a file with a row before the header and a metrics row after the data row,
\* whose value lies past the half between two integers
C21_Witness ==
    /\ outcome # <<>>
    /\ WellFormedMetrics(subject.file)
    /\ Len(subject.file) = 4
    /\ subject.file[1] = <<Text("## METRICS CLASS")>>
    /\ subject.file[2] = HeaderRow
    /\ subject.file[3] = MetricsRow(Decimal(910, 6))
    /\ subject.file[4] = MetricsRow(Decimal(2, 4))
    /\ outcome[1] = Returns(911)

----------------------------------------------------------------------------
(* template.report_to_json: clinical_report_json_composer *)

\* most rows of a table handed to the sort
MaxTableRows == 3

ALL_ONCOKB_OUTPUT_LEVELS ==
    <<"Level 1", "Level 2", "Level 3A", "Level 3B", "Level 4", "Level R1", "Level R2",
      "Likely Oncogenic">>

\* the `for output_level in ...` loop of oncokb_order, from `order` on: the
\* counter goes up once per level visited, the matching one included
RECURSIVE OrderLoop(_, _, _)
OrderLoop(output_levels, level, order) ==
    IF output_levels = <<>> THEN order
    ELSE IF level = Head(output_levels) THEN order + 1
    ELSE OrderLoop(Tail(output_levels), level, order + 1)

\* oncokb_order: the error is raised only if the counter is still -1 after
\* the loop
oncokb_order(level) ==
    LET order == OrderLoop(ALL_ONCOKB_OUTPUT_LEVELS, level, -1)
    IN  IF order = -1 THEN Raises("RuntimeError") ELSE Returns(order)

\* InsertSorted with the new element put before the elements of equal key
InsertBeforeEqual(done, e) ==
    LET n == Cardinality({i \in 1..Len(done) : done[i].key < e.key})
    IN  SubSeq(done, 1, n) \o <<e>> \o SubSeq(done, n + 1, Len(done))

\* sorted() is stable: the next element of the input goes after every element
\* already placed whose key is not greater
InsertSorted(done, e) ==
    LET n == Cardinality({i \in 1..Len(done) : done[i].key <= e.key})
    IN  SubSeq(done, 1, n) \o <<e>> \o SubSeq(done, n + 1, Len(done))

RECURSIVE SortedFrom(_, _)
SortedFrom(done, rest) ==
    IF rest = <<>> THEN done
    ELSE SortedFrom(InsertSorted(done, Head(rest)), Tail(rest))

\* sorted(rows, key=...), keys[i] being the key of rows[i]
sorted(rows, keys) ==
    LET keyed == SortedFrom(<<>>, [i \in 1..Len(rows) |-> [row |-> rows[i], key |-> keys[i]]])
    IN  [i \in 1..Len(keyed) |-> keyed[i].row]

\* sort_by_oncokb_level: the key function is applied to every row; an error
\* it raises is logged and raised again
sort_by_oncokb_level(rows) ==
    LET orders == [i \in 1..Len(rows) |-> oncokb_order(rows[i].oncokb)]
    IN  IF \E i \in 1..Len(rows) : ~orders[i].ok
        THEN Raises("RuntimeError")
        ELSE Returns(sorted(rows, [i \in 1..Len(rows) |-> orders[i].value]))

COMPASS == "COMPASS"
NA == "NA"

\* str.lower on the closest-TCGA codes of the model
lower(code) ==
    IF code \in {"PAAD", "Paad", "paad"} THEN "paad"
    ELSE IF code \in {"BRCA", "brca"} THEN "brca"
    ELSE IF code \in {"XYZ", "xyz"} THEN "xyz"
    ELSE code

\* str.upper on the same codes
upper(code) ==
    IF code \in {"PAAD", "Paad", "paad"} THEN "PAAD"
    ELSE IF code \in {"BRCA", "brca"} THEN "BRCA"
    ELSE IF code \in {"XYZ", "xyz"} THEN "XYZ"
    ELSE code

\* the attributes clinical_report_json_composer.__init__ derives from the
\* CLOSEST_TCGA column of the clinical data
ComposerInit(closest_tcga) ==
    [closest_tcga_lc |-> lower(closest_tcga), closest_tcga_uc |-> upper(closest_tcga)]

\* read_cohort on the composer object `self`, tcga_rows the rows of
\* tmbcomp-tcga.txt: `self.closest_tcga` is looked up on the object, and the
\* bare name `closest_tcga` among the local and global names
read_cohort(self, tcga_rows) ==
    LET tcga_cancer_types == {tcga_rows[i][4] : i \in 1..Len(tcga_rows)}
    IN  IF self.closest_tcga_lc = "paad" THEN Returns(COMPASS)
        ELSE IF "closest_tcga" \notin DOMAIN self THEN Raises("AttributeError")
        ELSE IF self.closest_tcga \in tcga_cancer_types THEN Raises("NameError")
        ELSE Returns(NA)

\* a table to sort, each row a gene and its OncoKB level, one level not an
\* output level; or a composer made for a closest-TCGA code, with a
\* tmbcomp-tcga.txt of a header row and up to two rows, the cancer type in
\* the fourth column
ComposerStart ==
    /\ MainIdle
    /\ workspace = {}
    /\ LET TableRows == [gene : {"KRAS", "TP53"},
                         oncokb : Range(ALL_ONCOKB_OUTPUT_LEVELS) \cup {"Unknown"}]
           tables == UNION {[1..n -> TableRows] : n \in 0..MaxTableRows}
           TcgaRow(cancer_type) == <<"sample", "0", "1.5", cancer_type>>
           codes == {"PAAD", "Paad", "paad", "BRCA", "brca", "XYZ"}
           files == {<<TcgaRow("CANCER.TYPE")>> \o body :
                        body \in {<<>>, <<TcgaRow("brca")>>, <<TcgaRow("BRCA")>>,
                                  <<TcgaRow("brca"), TcgaRow("paad")>>}}
       IN  subject \in {[fn |-> "sort_by_oncokb_level", rows |-> t] : t \in tables}
                \cup {[fn |-> "read_cohort", self |-> ComposerInit(code),
                       closest_tcga |-> code, tcga_rows |-> f] :
                        code \in codes, f \in files}
    /\ outcome = <<>>

CallSortByOncokbLevel ==
    /\ outcome = <<>>
    /\ subject.fn = "sort_by_oncokb_level"
    /\ outcome' = <<sort_by_oncokb_level(subject.rows)>>
    /\ UNCHANGED subject
    /\ UNCHANGED main_vars

CallReadCohort ==
    /\ outcome = <<>>
    /\ subject.fn = "read_cohort"
    /\ outcome' = <<read_cohort(subject.self, subject.tcga_rows)>>
    /\ UNCHANGED subject
    /\ UNCHANGED main_vars

ComposerSpec == ComposerStart /\ [][CallSortByOncokbLevel \/ CallReadCohort]_vars

\* a call of fn has been made
Called(fn) == outcome # <<>> /\ subject.fn = fn

\* position of an output level in ALL_ONCOKB_OUTPUT_LEVELS
LevelPosition(level) ==
    CHOOSE i \in 1..Len(ALL_ONCOKB_OUTPUT_LEVELS) : ALL_ONCOKB_OUTPUT_LEVELS[i] = level

\* how often x occurs in the sequence seq
CountIn(seq, x) == Cardinality({i \in 1..Len(seq) : seq[i] = x})

\* the rows of a table that have the given level, in table order
RowsOfLevel(table, level) ==
    LET HasLevel(row) == row.oncokb = level
    IN  SelectSeq(table, HasLevel)

AllLevelsKnown(table) ==
    \A i \in 1..Len(table) : table[i].oncokb \in Range(ALL_ONCOKB_OUTPUT_LEVELS)

\* C22: for rows whose levels are all output levels, sort_by_oncokb_level
\* returns a permutation of the rows, ordered by the position of the level in
\* ALL_ONCOKB_OUTPUT_LEVELS, rows of equal level in their input order
C22_StableSortByLevel ==
    (Called("sort_by_oncokb_level") /\ AllLevelsKnown(subject.rows)) =>
        LET rows == subject.rows
            r == outcome[1]
        IN  /\ r.ok
            /\ Len(r.value) = Len(rows)
            /\ \A x \in Range(rows) : CountIn(r.value, x) = CountIn(rows, x)
            /\ \A i \in 1..(Len(rows) - 1) :
                    LevelPosition(r.value[i].oncokb) <= LevelPosition(r.value[i + 1].oncokb)
            /\ \A level \in Range(ALL_ONCOKB_OUTPUT_LEVELS) :
                    RowsOfLevel(r.value, level) = RowsOfLevel(rows, level)

\* two rows of the lowest level around a row of the highest: the sort moves
\* the highest to the front and keeps the other two in input order
C22_Witness ==
    /\ Called("sort_by_oncokb_level")
    /\ subject.rows = <<[gene |-> "TP53", oncokb |-> "Likely Oncogenic"],
                        [gene |-> "KRAS", oncokb |-> "Level 1"],
                        [gene |-> "KRAS", oncokb |-> "Likely Oncogenic"]>>
    /\ outcome[1] = Returns(<<[gene |-> "KRAS", oncokb |-> "Level 1"],
                              [gene |-> "TP53", oncokb |-> "Likely Oncogenic"],
                              [gene |-> "KRAS", oncokb |-> "Likely Oncogenic"]>>)

\* C23 as stated: a row whose level is not an output level makes
\* sort_by_oncokb_level raise RuntimeError
C23_Original ==
    (Called("sort_by_oncokb_level") /\ ~AllLevelsKnown(subject.rows)) =>
        outcome[1] = Raises("RuntimeError")

\* C24 as stated: read_cohort returns COMPASS for paad, the matching cancer
\* type for a code that is one of the cancer types of the file, NA otherwise
C24_Original ==
    Called("read_cohort") =>
        LET types == {subject.tcga_rows[i][4] : i \in 1..Len(subject.tcga_rows)}
            code == subject.closest_tcga
        IN  outcome[1] = IF lower(code) = "paad" THEN Returns(COMPASS)
                         ELSE IF code \in types THEN Returns(code)
                         ELSE Returns(NA)

----------------------------------------------------------------------------
(* simple.reader: reader, json_reader, reader_factory *)

\* most gene dictionaries in a list of genes
MaxGenes == 2
\* most attributes in a reader's sample_info
MaxAttributes == 2

GENE_NAME_KEY == "Gene"
READER_CLASS_KEY == "reader_class"

\* the output schema, as far as the reader reads it: the properties of a
\* gene-metrics item and of the sample information
Schema ==
    [properties |->
        [gene_metrics |-> [items |-> [properties |-> [Gene |-> "string", copies |-> "number"]]],
         sample_info |-> [properties |-> [purity |-> "number", ploidy |-> "number"]]]]

\* dict.get on an insertion-ordered dict: <<>> stands for None
Get(entries, name) ==
    IF \E i \in 1..Len(entries) : entries[i].name = name
    THEN <<(CHOOSE e \in Range(entries) : e.name = name).value>>
    ELSE <<>>

\* reader.__init__
reader_init(config, schema) ==
    [permitted_gene_attributes |->
        DOMAIN schema.properties.gene_metrics.items.properties,
     permitted_sample_attributes |-> DOMAIN schema.properties.sample_info.properties,
     gene_metrics |-> <<>>,
     sample_info |-> <<>>]

\* `for gene in genes: self.gene_metrics[gene.get('Gene')] = gene`
RECURSIVE StoreGenes(_, _)
StoreGenes(gene_metrics, genes) ==
    IF genes = <<>> THEN gene_metrics
    ELSE StoreGenes(SetItem(gene_metrics, Head(genes)[GENE_NAME_KEY], Head(genes)), Tail(genes))

\* json_reader.__init__; the result of validate_with_schema is not used
json_reader_init(config, schema) ==
    LET self == reader_init(config, schema)
    IN  [self EXCEPT !.gene_metrics = StoreGenes(self.gene_metrics, config.gene_metrics),
                     !.sample_info = config.sample_info]

\* the `for key in metrics_for_update.keys()` loop on one gene dictionary:
\* a metric in both with different values raises, the others are added
UpdateGene(gene, metrics_for_update) ==
    IF \E key \in DOMAIN metrics_for_update :
            key \in DOMAIN gene /\ gene[key] # metrics_for_update[key]
    THEN Raises("ValueError")
    ELSE Returns([key \in DOMAIN gene \cup DOMAIN metrics_for_update |->
                    IF key \in DOMAIN gene THEN gene[key] ELSE metrics_for_update[key]])

\* the `for gene in genes` loop, `done` holding the genes already updated;
\* .keys() of the None that get() returns for an unknown name is an
\* AttributeError
RECURSIVE UpdateGenesFrom(_, _, _)
UpdateGenesFrom(self, done, genes) ==
    IF genes = <<>> THEN Returns(done)
    ELSE LET gene == Head(genes)
             metrics_for_update == Get(self.gene_metrics, gene[GENE_NAME_KEY])
         IN  IF metrics_for_update = <<>> THEN Raises("AttributeError")
             ELSE LET updated == UpdateGene(gene, metrics_for_update[1])
                  IN  IF ~updated.ok THEN updated
                      ELSE UpdateGenesFrom(self, Append(done, updated.value), Tail(genes))

\* reader.update_genes
update_genes(self, genes) ==
    IF Len(genes) = 0
    THEN Returns([i \in 1..Len(self.gene_metrics) |-> self.gene_metrics[i].value])
    ELSE UpdateGenesFrom(self, <<>>, genes)

\* reader.update_sample from the given entry of self.sample_info on; info is
\* changed in place, so the call leaves both a result and the dictionary
RECURSIVE UpdateSampleFrom(_, _)
UpdateSampleFrom(entries, info) ==
    IF entries = <<>> THEN [result |-> Returns(info), info |-> info]
    ELSE LET key == Head(entries).name
             new_value == Head(entries).value
         IN  IF key \in DOMAIN info
             THEN IF info[key] # new_value
                  THEN [result |-> Raises("ValueError"), info |-> info]
                  ELSE UpdateSampleFrom(Tail(entries), info)
             ELSE UpdateSampleFrom(Tail(entries),
                                   [k \in DOMAIN info \cup {key} |->
                                        IF k = key THEN new_value ELSE info[k]])

update_sample(self, info) == UpdateSampleFrom(self.sample_info, info)

\* reader.find_sample_attribute_errors: the names reported, one message each,
\* in the order of self.sample_info
find_sample_attribute_errors(self) ==
    LET Reported(entry) == entry.name \notin self.permitted_gene_attributes
    IN  Keys(SelectSeq(self.sample_info, Reported))

\* the names bound at the top level of the module
ModuleGlobals == {"json", "reader", "reader_factory", "json_reader"}
\* the arguments the constructor of a class takes besides self
ConstructorParameters(klass) ==
    IF klass = "reader_factory" THEN <<>> ELSE <<"config", "schema_path">>

\* reader_factory.create_instance: `klass(config)` is a call with one
\* argument; calling None or a module, or a constructor with another number
\* of parameters, is a TypeError
create_instance(config) ==
    IF READER_CLASS_KEY \notin DOMAIN config THEN Raises("ValueError")
    ELSE LET classname == config[READER_CLASS_KEY]
         IN  IF classname \notin ModuleGlobals THEN Raises("TypeError")
             ELSE IF classname = "json" THEN Raises("TypeError")
             ELSE IF Len(ConstructorParameters(classname)) # 1 THEN Raises("TypeError")
             ELSE Returns([class |-> classname])

\* lists of gene dictionaries: a name, with or without a copy number
GeneLists ==
    LET names == {"KRAS", "TP53"}
        dicts == {[k \in {GENE_NAME_KEY} |-> g] : g \in names}
                    \cup {[Gene |-> g, copies |-> n] : g \in names, n \in {1, 2}}
    IN  UNION {[1..n -> dicts] : n \in 0..MaxGenes}

\* sample information: attribute names, each at most once, with their values
AttributeNames == {"purity", "ploidy", "Gene", "bogus"}
SampleInfos ==
    {es \in UNION {[1..n -> [name : AttributeNames, value : {1, 2}]] : n \in 0..MaxAttributes} :
        \A i, j \in 1..Len(es) : i # j => es[i].name # es[j].name}

ReaderWith(genes, sample_info) ==
    json_reader_init([gene_metrics |-> genes, sample_info |-> sample_info], Schema)

\* a reader holding genes or sample information, with the argument of the
\* method called on it; or a configuration for the factory, reader_class
\* absent, a name bound in the module, or a name that is not
ReaderStart ==
    /\ MainIdle
    /\ workspace = {}
    /\ LET infos == UNION {[S -> {1, 2}] : S \in SUBSET {"purity", "ploidy"}}
           configs == {[gene_metrics |-> <<>>, sample_info |-> <<>>]}
                          \cup {[reader_class |-> k, gene_metrics |-> <<>>,
                                 sample_info |-> <<>>] :
                                    k \in ModuleGlobals \cup {"csv_reader"}}
       IN  subject \in
                {[fn |-> "update_genes", self |-> ReaderWith(held, <<>>), genes |-> genes] :
                    held \in GeneLists, genes \in GeneLists}
                \cup {[fn |-> "update_sample", self |-> ReaderWith(<<>>, s), info |-> info] :
                        s \in SampleInfos, info \in infos}
                \cup {[fn |-> "find_sample_attribute_errors", self |-> ReaderWith(<<>>, s)] :
                        s \in SampleInfos}
                \cup {[fn |-> "create_instance", config |-> c] : c \in configs}
    /\ outcome = <<>>

CallUpdateGenes ==
    /\ outcome = <<>>
    /\ subject.fn = "update_genes"
    /\ outcome' = <<update_genes(subject.self, subject.genes)>>
    /\ UNCHANGED subject
    /\ UNCHANGED main_vars

CallUpdateSample ==
    /\ outcome = <<>>
    /\ subject.fn = "update_sample"
    /\ outcome' = <<update_sample(subject.self, subject.info)>>
    /\ UNCHANGED subject
    /\ UNCHANGED main_vars

CallFindSampleAttributeErrors ==
    /\ outcome = <<>>
    /\ subject.fn = "find_sample_attribute_errors"
    /\ outcome' = <<Returns(find_sample_attribute_errors(subject.self))>>
    /\ UNCHANGED subject
    /\ UNCHANGED main_vars

CallCreateInstance ==
    /\ outcome = <<>>
    /\ subject.fn = "create_instance"
    /\ outcome' = <<create_instance(subject.config)>>
    /\ UNCHANGED subject
    /\ UNCHANGED main_vars

ReaderSpec ==
    ReaderStart /\ [][\/ CallUpdateGenes
                      \/ CallUpdateSample
                      \/ CallFindSampleAttributeErrors
                      \/ CallCreateInstance]_vars

\* C25 as stated: find_sample_attribute_errors reports, once each, exactly
\* the names of sample_info that the schema does not permit as sample
\* attributes
C25_Original ==
    Called("find_sample_attribute_errors") =>
        LET self == subject.self
            errors == outcome[1].value
        IN  \A name \in AttributeNames :
                CountIn(errors, name) =
                    IF /\ name \in Range(Keys(self.sample_info))
                       /\ name \notin DOMAIN Schema.properties.sample_info.properties
                    THEN 1 ELSE 0

\* C26 as stated: create_instance returns an instance of the class named by
\* reader_class when that is a reader class of the module, and raises
\* ValueError when reader_class is missing or names no class of the module
C26_Original ==
    Called("create_instance") =>
        LET config == subject.config
            reader_classes == {"reader", "json_reader"}
        IN  outcome[1] =
                IF READER_CLASS_KEY \in DOMAIN config /\ config[READER_CLASS_KEY] \in reader_classes
                THEN Returns([class |-> config[READER_CLASS_KEY]])
                ELSE Raises("ValueError")

\* the metrics the reader holds for a gene name, none for an unknown name
HeldMetrics(self, name) ==
    IF Get(self.gene_metrics, name) = <<>> THEN [k \in {} |-> 0]
    ELSE Get(self.gene_metrics, name)[1]

\* C27 as stated: for a non-empty list update_genes either returns the list
\* with every gene extended by the metrics held for its name, or raises
\* ValueError because some metric present in both differs, whatever the gene
\* names; for the empty list it returns the reader's gene-metric dictionaries
C27_Original ==
    Called("update_genes") =>
        LET self == subject.self
            genes == subject.genes
            r == outcome[1]
            Conflict(gene) ==
                \E key \in DOMAIN gene \cap DOMAIN HeldMetrics(self, gene[GENE_NAME_KEY]) :
                    gene[key] # HeldMetrics(self, gene[GENE_NAME_KEY])[key]
            Extended(gene) ==
                LET held == HeldMetrics(self, gene[GENE_NAME_KEY])
                IN  [key \in DOMAIN gene \cup DOMAIN held |->
                        IF key \in DOMAIN gene THEN gene[key] ELSE held[key]]
        IN  IF genes = <<>>
            THEN r = Returns([i \in 1..Len(self.gene_metrics) |-> self.gene_metrics[i].value])
            ELSE IF \E i \in 1..Len(genes) : Conflict(genes[i])
            THEN r = Raises("ValueError")
            ELSE r = Returns([i \in 1..Len(genes) |-> Extended(genes[i])])

\* C30 as stated: when update_sample raises, info is as it was before the
\* call; when it returns, every key info had keeps its value and every
\* attribute of the reader is present with the reader's value
C30_Original ==
    Called("update_sample") =>
        LET before == subject.info
            after == outcome[1].info
            held == subject.self.sample_info
        IN  IF outcome[1].result.ok
            THEN /\ \A k \in DOMAIN before : k \in DOMAIN after /\ after[k] = before[k]
                 /\ \A i \in 1..Len(held) :
                        held[i].name \in DOMAIN after /\ after[held[i].name] = held[i].value
            ELSE after = before

----------------------------------------------------------------------------
(* Plugin configure called on its own, and again on what it returned *)

\* most successive configure calls on one section
MaxConfigureCalls == 2
\* fewest discovered parameters a tar.sample section is enumerated with,
\* besides the section that gives none
MinTarGiven == 8

\* supplement.body sections: the assay absent, null, valid or invalid, and
\* the dates absent, null or given; tar.sample sections: most of the
\* discovered parameters given, or none; input_params.json present or not
ConfigureInit ==
    /\ MainIdle
    /\ LET supplement_sections ==
                {[p \in S |-> f[p]] :
                    S \in SUBSET SupplementDiscovered,
                    f \in [assay : {NULL, "WGTS", "TAR", "BOGUS"},
                           user_supplied_draft_date : {"2023-01-01"},
                           report_signoff_date : {NULL, "2023-02-01"}]}
           tar_sections ==
                {[p \in S |-> Given(p)] :
                    S \in {T \in SUBSET TarDiscovered :
                                Cardinality(T) >= MinTarGiven \/ T = {}}}
       IN  subject \in
                {[fn |-> "configure", plugin |-> SUPPLEMENT, params |-> ps,
                  workspace |-> ws] :
                    ps \in supplement_sections, ws \in {{}, {INPUT_PARAMS_FILE}}}
                \cup {[fn |-> "configure", plugin |-> TAR, params |-> ps, workspace |-> ws] :
                        ps \in tar_sections, ws \in {{}, {INPUT_PARAMS_FILE}}}
    /\ workspace = subject.workspace
    /\ outcome = <<>>

\* the section the i-th call is handed: the given one, then the one the
\* call before returned
ConfigureInput(i) == IF i = 1 THEN subject.params ELSE outcome[i - 1].section

\* plugin.configure, on the given section or on the section the last call
\* returned; neither plugin writes to the workspace
CallConfigure ==
    /\ subject.fn = "configure"
    /\ Len(outcome) < MaxConfigureCalls
    /\ IF outcome = <<>> THEN TRUE ELSE outcome[Len(outcome)].ok
    /\ \E env \in EnvsFor(subject.plugin) :
        outcome' = Append(outcome,
                          PluginConfigure(subject.plugin, ConfigureInput(Len(outcome) + 1),
                                          workspace, env))
    /\ UNCHANGED subject
    /\ UNCHANGED main_vars

ConfigureSpec == ConfigureInit /\ [][CallConfigure]_vars

DiscoveredOf(plugin) == IF plugin = TAR THEN TarDiscovered ELSE SupplementDiscovered

\* C28: in tar.sample and supplement.body, a discovered parameter that is
\* non-null in the section handed to configure has the same value in the
\* section a successful configure returns
C28_GivenDiscoveredKept ==
    \A i \in 1..Len(outcome) :
        outcome[i].ok =>
            \A p \in DiscoveredOf(subject.plugin) :
                (p \in DOMAIN ConfigureInput(i) /\ ConfigureInput(i)[p] # NULL) =>
                    outcome[i].section[p] = ConfigureInput(i)[p]

\* tar.sample given eight parameters, input_params.json present: configure
\* looks up the two missing ones and leaves the given ones; and supplement.body
\* is covered by C29_Witness
C28_Witness ==
    /\ subject.plugin = TAR
    /\ subject.params = [p \in TarDiscovered \ {"group_id", "raw_coverage"} |-> Given(p)]
    /\ Len(outcome) = 1
    /\ outcome[1].ok
    /\ outcome[1].section["group_id"] = Discovered("group_id")
    /\ outcome[1].section["raw_coverage"] = Discovered("raw_coverage")
    /\ outcome[1].section["normal_id"] = Given("normal_id")

\* C29: supplement.body configure applied to the section a successful
\* configure returned succeeds and returns that section, and the workspace
\* holds what it held before the first call
C29_SupplementConfigureIdempotent ==
    (subject.plugin = SUPPLEMENT /\ Len(outcome) >= 1 /\ outcome[1].ok) =>
        /\ workspace = subject.workspace
        /\ \A i \in 2..Len(outcome) :
                outcome[i].ok /\ outcome[i].section = outcome[i - 1].section

\* an empty section: the first call takes the assay from input_params.json
\* and marks both dates, the second returns the same section
C29_Witness ==
    /\ subject.plugin = SUPPLEMENT
    /\ subject.params = EmptyParams
    /\ Len(outcome) = 2
    /\ outcome[1].ok
    /\ outcome[1].section[ASSAY] = InputParamsAssay
    /\ outcome[1].section["report_signoff_date"] = NONE_SPECIFIED
    /\ outcome[2] = outcome[1]
====
